---- MODULE Spec2Model ----
(***************************************************************************)
(* Checkout, payment initialization and payment verification of the       *)
(* storefront: the process-checkout edge function and the two versions of *)
(* the paystack-secure edge function, over the orders table, the          *)
(* payment_transactions table and the Paystack gateway; the customer      *)
(* registration function over the customer_accounts table; the admin user *)
(* creation function over Supabase auth and the profiles table; and, in   *)
(* the browser, the validation of admin passwords, the order status       *)
(* manager and the cart.                                                   *)
(*                                                                         *)
(* Every request is one call c in Calls.  A handler is cut at its awaits: *)
(* each action is the code between two database or gateway round trips,   *)
(* together with the round trip that ends it, so concurrent requests      *)
(* interleave exactly where the code yields.                               *)
(***************************************************************************)
EXTENDS Integers, Sequences, FiniteSets, TLC

\* ------------------------------------------------------------------ bounds
\* Number of requests served in one behaviour.
MaxCalls == 3

\* Number of those requests that may be checkouts.
MaxCheckouts == 2

\* Number of transactions the customer attempts to pay at the gateway.
MaxPayments == 1

Calls == 1..MaxCalls

\* ------------------------------------------------------------ null values
NoRef == <<>>          \* a null / absent reference or key
NoId == 0              \* a null / absent order id
NoTime == 0            \* a null timestamp

\* ------------------------------------------------------------------ state
VARIABLES
  deployed,   \* which version of paystack-secure/index.ts is deployed
  orders,     \* rows of the orders table
  ledger,     \* rows of the payment_transactions table
  gateway,    \* transactions known to Paystack
  statusLog,  \* statements that set an order paid or confirmed, as the database saw them
  nextId,     \* source of Date.now() / Math.random() / crypto.randomUUID() tokens
  clock,      \* source of new Date().toISOString()
  pc,         \* position of each request handler
  inp,        \* request body of each call
  loc,        \* local variables of each handler
  resp,       \* HTTP response of each call
  customers,  \* rows of the customer_accounts table
  otpCodes,   \* rows of the customer_otp_codes table
  authUsers,     \* users of Supabase auth
  profiles,      \* rows of the profiles table
  authAdminLog,  \* calls made to auth.admin.createUser and auth.admin.deleteUser
  credentials,   \* password and email entered in the admin creation form
  validation,    \* what the client and the server made of them
  currentStatus, \* status of each order shown to useOrderStatusManager
  transitions,   \* number of status changes each order went through
  cart,          \* cart.items of useCart
  cartClock      \* source of Date.now() for cart item ids

\* State of the admin user creation function.
adminVars == <<authUsers, profiles, authAdminLog>>

\* State of the browser: the admin creation form, the order status manager
\* and the cart.
clientVars == <<credentials, validation, currentStatus, transitions, cart, cartClock>>

\* State of the edge functions, their tables and the gateway.
serverVars == <<customers, otpCodes, deployed, orders, ledger, gateway, statusLog, nextId, clock, pc, inp, loc, resp>>

vars == <<adminVars, clientVars, serverVars>>

\* ------------------------------------------------------- request payloads
CartA == << [price |-> 1000, quantity |-> 2], [price |-> 200, quantity |-> 1] >>
CartB == << [price |-> 500, quantity |-> 0] >>     \* quantity missing

\* Bodies a client can POST to process-checkout (total_amount 0 and an empty
\* idempotency_key: the field is absent).
CheckoutBodies ==
  { [items |-> CartA, email |-> "ada@x", name |-> "Ada", fee |-> 300, total_amount |-> 0,
     idempotency_key |-> <<"key", "1">>],
    [items |-> CartA, email |-> "ada@x", name |-> "Ada", fee |-> 300, total_amount |-> 2000,
     idempotency_key |-> <<"key", "1">>],
    [items |-> CartB, email |-> "bob@x", name |-> "Bob", fee |-> 0, total_amount |-> 500,
     idempotency_key |-> <<"key", "1">>],
    [items |-> CartB, email |-> "bob@x", name |-> "Bob", fee |-> 0, total_amount |-> 500,
     idempotency_key |-> NoRef],
    [items |-> << >>, email |-> "ada@x", name |-> "Ada", fee |-> 0, total_amount |-> 0,
     idempotency_key |-> NoRef],
    [items |-> CartB, email |-> "", name |-> "Bob", fee |-> 0, total_amount |-> 500,
     idempotency_key |-> NoRef] }

\* ------------------------------------------------------------ arithmetic
\* items.reduce((sum, item) => sum + (item.price || 0) * (item.quantity || 1), 0)
RECURSIVE ItemsSubtotal(_)
ItemsSubtotal(items) ==
  IF items = << >> THEN 0
  ELSE LET item == Head(items)
           itemQuantity == IF item.quantity = 0 THEN 1 ELSE item.quantity
       IN  item.price * itemQuantity + ItemsSubtotal(Tail(items))

\* calculatedTotalAmount: the client's total_amount when it is positive, else
\* subtotal + delivery fee.
CalculatedTotalAmount(body) ==
  IF body.total_amount <= 0
    THEN ItemsSubtotal(body.items) + body.fee
    ELSE body.total_amount

\* amount: finalTotal * 100 (naira to kobo)
ToKobo(naira) == naira * 100

\* ------------------------------------------------------------ responses
\* No response yet.
Pending == [status |-> 0]

\* The catch blocks: { success / status: false, error } with an HTTP status.
ErrorResponse(code) ==
  [status |-> code, success |-> FALSE, order_id |-> NoId, reference |-> NoRef,
   total_amount |-> 0, authorization_url |-> NoRef, data_status |-> ""]

\* A 200 answer: the order id, reference and total it reports, the hosted
\* payment URL (named by the reference it pays) and the gateway's status.
OkResponse(orderId, reference, total, url, dataStatus) ==
  [status |-> 200, success |-> TRUE, order_id |-> orderId, reference |-> reference,
   total_amount |-> total, authorization_url |-> url, data_status |-> dataStatus]

\* An entry of statusLog: the call and the statement (the RPC or the update of
\* orders), the reference it names, the gateway status the handler had read,
\* and whether it changed a row.
StatusWrite(c, via, ref, txStatus, applied) ==
  [call |-> c, via |-> via, reference |-> ref, gateway_status |-> txStatus, applied |-> applied]

\* ------------------------------------------------------------ the gateway
\* Paystack refuses an initialize whose reference it has seen before.
GatewayKnows(ref) == \E t \in gateway : t.reference = ref

GatewayTx(ref) == CHOOSE t \in gateway : t.reference = ref

GatewayInitialize(ref, amountInKobo, orderId, orderNumber) ==
  gateway \cup { [reference |-> ref, amount |-> amountInKobo, status |-> "abandoned",
                  order_id |-> orderId, order_number |-> orderNumber] }

\* ------------------------------------------------------- the orders table
OrderIds == { o.id : o \in orders }

OrderById(id) == CHOOSE o \in orders : o.id = id

\* .upsert(orderData, { onConflict: 'idempotency_key', ignoreDuplicates: false }):
\* INSERT ... ON CONFLICT (idempotency_key) DO UPDATE SET every column of orderData.
UpsertOrder(rows, orderData) ==
  IF \E o \in rows : o.idempotency_key = orderData.idempotency_key
    THEN { IF o.idempotency_key = orderData.idempotency_key
             THEN [orderData EXCEPT !.paid_at = o.paid_at]
             ELSE o : o \in rows }
    ELSE rows \cup { orderData }

\* The order_number the database gives an order.
OrderNumber(o) == <<"ORD", ToString(o.id)>>

\* .from('orders').select('id').eq('order_number', orderNumber).maybeSingle()
OrderIdByNumber(rows, orderNumber) ==
  LET byNum == { o \in rows : OrderNumber(o) = orderNumber }
  IN  IF Cardinality(byNum) = 1 THEN (CHOOSE o \in byNum : TRUE).id ELSE NoId

\* .update({ payment_reference: ref }).eq('id', id)
SetPaymentReference(rows, id, ref) ==
  { IF o.id = id THEN [o EXCEPT !.payment_reference = ref] ELSE o : o \in rows }

\* ---------------------------------------------------------------- Init
\* Orders shown in the admin's order page.
MaxOrders == 2

ManagedOrders == 1..MaxOrders

\* No admin user creation has taken place.
AdminIdle ==
  /\ authUsers = {}
  /\ profiles = {}
  /\ authAdminLog = {}

\* The browser as it starts: nothing entered, every order pending, the cart empty.
ClientIdle ==
  /\ credentials = [password |-> << >>, email |-> << >>]
  /\ validation = [stage |-> "none"]
  /\ currentStatus = [o \in ManagedOrders |-> "pending"]
  /\ transitions = [o \in ManagedOrders |-> 0]
  /\ cart = << >>
  /\ cartClock = 1

Init ==
  /\ deployed \in { "v1", "v2" }
  /\ orders = {}
  /\ ledger = {}
  /\ gateway = {}
  /\ statusLog = {}
  /\ nextId = 1
  /\ clock = 1
  /\ pc = [c \in Calls |-> "idle"]
  /\ inp = [c \in Calls |-> [op |-> "none"]]
  /\ loc = [c \in Calls |-> << >>]
  /\ resp = [c \in Calls |-> Pending]
  /\ customers = {}
  /\ otpCodes = {}
  /\ AdminIdle
  /\ ClientIdle

\* A call is taken up only after the calls before it (requests are interchangeable).
CanStart(c) == pc[c] = "idle" /\ (IF c = 1 THEN TRUE ELSE pc[c - 1] # "idle")

\* The handler of call c answers.
Finish(c, response) ==
  /\ pc' = [pc EXCEPT ![c] = "done"]
  /\ resp' = [resp EXCEPT ![c] = response]
  /\ loc' = [loc EXCEPT ![c] = << >>]

\* The handler of call c moves on to its next await.
Goto(c, label) ==
  /\ pc' = [pc EXCEPT ![c] = label]
  /\ UNCHANGED <<resp, loc>>

\* The same, setting the handler's local variables.
GotoWith(c, label, locals) ==
  /\ pc' = [pc EXCEPT ![c] = label]
  /\ loc' = [loc EXCEPT ![c] = locals]
  /\ UNCHANGED resp

\* ------------------------------------------------------ process-checkout
\* orderData of a request, from its body and the tokens it generated.
OrderData(body, token) ==
  [ id |-> token,
    payment_reference |-> <<"txn", ToString(token)>>,
    customer_email |-> body.email,
    customer_name |-> body.name,
    items |-> body.items,
    subtotal |-> ItemsSubtotal(body.items),
    delivery_fee |-> body.fee,
    total_amount |-> CalculatedTotalAmount(body),
    status |-> "pending",
    payment_status |-> "pending",
    paid_at |-> NoTime,
    idempotency_key |-> IF body.idempotency_key = NoRef THEN <<"checkout", ToString(token)>>
                        ELSE body.idempotency_key ]

\* The required-field checks with the one of the email left out.
CheckoutInvalidEmailUnchecked(body) ==
  body.items = << >> \/ CalculatedTotalAmount(body) <= 0

\* Lines 44-46 and 62-64: no items, no customer email, or no positive total.
CheckoutInvalid(body) ==
  body.items = << >> \/ body.email = "" \/ CalculatedTotalAmount(body) <= 0

\* Lines 23-152: read the body, validate, compute the amounts, mint the
\* reference and upsert the order.
CheckoutStart(c) ==
  /\ CanStart(c)
  /\ Cardinality({ d \in Calls : inp[d].op = "checkout" }) < MaxCheckouts
  /\ \E body \in CheckoutBodies, orderError \in { "none", "23505", "other" } :
       /\ inp' = [inp EXCEPT ![c] = [op |-> "checkout", body |-> body]]
       /\ IF CheckoutInvalid(body)
            THEN /\ Finish(c, ErrorResponse(500))
                 /\ UNCHANGED <<orders, nextId>>
            ELSE LET orderData == OrderData(body, nextId)
                     locals == [orderData |-> orderData,
                                paymentReference |-> orderData.payment_reference,
                                finalTotal |-> orderData.total_amount,
                                orderResultId |-> orderData.id]
                 IN  /\ nextId' = nextId + 1
                     /\ CASE orderError = "none" ->
                               /\ orders' = UpsertOrder(orders, orderData)
                               /\ GotoWith(c, "checkout_paystack", locals)
                          [] orderError = "23505" ->
                               /\ UNCHANGED orders
                               /\ GotoWith(c, "checkout_existing", locals)
                          [] OTHER ->
                               /\ UNCHANGED orders
                               /\ Finish(c, ErrorResponse(500))
  /\ UNCHANGED <<adminVars, clientVars, customers, otpCodes, deployed, ledger, gateway, statusLog, clock>>

\* Lines 125-151: on a unique violation fetch the order of the key, give it a
\* payment_reference if it has none; `orderResult = existingOrder` then assigns
\* to a const binding, which throws, and without a row the handler throws too.
CheckoutExisting(c) ==
  /\ pc[c] = "checkout_existing"
  /\ LET key == loc[c].orderData.idempotency_key
         found == { o \in orders : o.idempotency_key = key }
     IN  orders' = { IF o \in found /\ o.payment_reference = NoRef
                       THEN [o EXCEPT !.payment_reference = loc[c].paymentReference]
                       ELSE o : o \in orders }
  /\ Finish(c, ErrorResponse(500))
  /\ UNCHANGED <<adminVars, clientVars, customers, otpCodes, deployed, ledger, gateway, statusLog, nextId, clock, inp>>

\* Lines 156-195: POST /transaction/initialize with finalTotal * 100.
CheckoutPaystack(c) ==
  /\ pc[c] = "checkout_paystack"
  /\ \E ok \in BOOLEAN :
       IF ok /\ ~GatewayKnows(loc[c].paymentReference)
         THEN /\ gateway' = GatewayInitialize(loc[c].paymentReference,
                                               ToKobo(loc[c].finalTotal), loc[c].orderResultId,
                                               NoRef)
              /\ Goto(c, "checkout_update")
         ELSE /\ UNCHANGED gateway
              /\ Finish(c, ErrorResponse(500))
  /\ UNCHANGED <<adminVars, clientVars, customers, otpCodes, deployed, orders, ledger, statusLog, nextId, clock, inp>>

\* Lines 197-240: store the payment info on the order and answer.
CheckoutRespond(c) ==
  /\ pc[c] = "checkout_update"
  /\ orders' = SetPaymentReference(orders, loc[c].orderResultId, loc[c].paymentReference)
  /\ Finish(c, OkResponse(loc[c].orderResultId, loc[c].paymentReference, loc[c].finalTotal,
                          loc[c].paymentReference, ""))
  /\ UNCHANGED <<adminVars, clientVars, customers, otpCodes, deployed, ledger, gateway, statusLog, nextId, clock, inp>>

\* ------------------------------------------- the payment_transactions table
\* The only element of a set of rows, as .maybeSingle() gives it: no row when
\* the query matches none, and none either when it matches several.
HasSingle(rows) == Cardinality(rows) = 1

Single(rows) == CHOOSE t \in rows : TRUE

\* The unique constraints of the table: provider_reference, and reference
\* where it is not null.
LedgerConflicts(rows, row) ==
  { t \in rows : \/ t.provider_reference = row.provider_reference
                 \/ (row.reference # NoRef /\ t.reference = row.reference) }

\* An insert into a table without unique constraints.
CanInsertAlways(rows, row) == TRUE

\* .insert(row): a violation of a unique constraint is an error.
CanInsert(rows, row) == LedgerConflicts(rows, row) = {}

\* .upsert(row, { onConflict: 'reference' }): insert, or overwrite the columns
\* of the payload on the row that holds the reference; a violation of the
\* other unique constraint is an error that leaves the table as it was.
UpsertByReference(rows, row) ==
  LET same == { t \in rows : t.reference = row.reference }
      others == LedgerConflicts(rows, row) \ same
  IN  IF others # {} THEN rows
      ELSE IF same = {} THEN rows \cup { row }
      ELSE { IF t \in same
               THEN [t EXCEPT !.provider_reference = row.provider_reference,
                              !.amount = row.amount,
                              !.status = row.status]
               ELSE t : t \in rows }

\* .upsert(payload, { onConflict: 'provider_reference' }): the payload of verify
\* holds status, amount and, when an order was resolved, order_id.
UpsertByProviderReference(rows, payload) ==
  LET same == { t \in rows : t.provider_reference = payload.provider_reference }
  IN  IF same = {} THEN rows \cup { payload }
      ELSE { IF t \in same
               THEN [t EXCEPT !.status = payload.status,
                              !.amount = payload.amount,
                              !.order_id = IF payload.order_id # NoId THEN payload.order_id
                                           ELSE t.order_id]
               ELSE t : t \in rows }

\* ------------------------------------------------- requests to paystack-secure
\* References a client can send: a provisional pay_ reference, a reference in
\* no known format, and a string shorter than ten characters.
ProvisionalRef == <<"pay", "abc123">>
ForeignRef == <<"ord", "abc123">>
ShortRef == <<"abc">>

\* References stored somewhere in the system.
KnownRefs ==
  ({ o.payment_reference : o \in orders } \cup { t.reference : t \in gateway }
     \cup { t.provider_reference : t \in ledger }) \ { NoRef }

\* ------------------------------- paystack-secure, version v2025-08-17-fixed
\* Lines 785-805: keep a txn_ reference, turn pay_ into txn_, mint otherwise.
TransactionRefV2(reference, token) ==
  IF reference = NoRef THEN <<"txn", ToString(token)>>
  ELSE IF Head(reference) = "txn" THEN reference
  ELSE IF Head(reference) = "pay" THEN <<"txn">> \o Tail(reference)
  ELSE <<"txn", ToString(token)>>

\* Lines 747-783: total_amount + delivery_fee of the order of metadata.order_id
\* replaces the amount of the request when the two differ by more than 0.01.
AuthoritativeAmount(amount, orderId) ==
  IF orderId # NoId /\ orderId \in OrderIds
    THEN LET orderData == OrderById(orderId)
             computedAmount == orderData.total_amount + orderData.delivery_fee
         IN  IF computedAmount # amount THEN computedAmount ELSE amount
    ELSE amount

\* Bodies of { action: 'initialize' } (amount in naira; 0: the field is absent).
InitializeBodiesV2 ==
  { [amount |-> 0, reference |-> NoRef, order_id |-> NoId] }
    \cup { [amount |-> 2500, reference |-> r, order_id |-> NoId]
           : r \in { NoRef, ProvisionalRef, ForeignRef } }
    \cup { [amount |-> 2500, reference |-> o.payment_reference, order_id |-> o.id]
           : o \in orders }

\* Lines 738-821: validate, recompute the amount, settle the reference.
InitializeV2Start(c) ==
  /\ deployed = "v2"
  /\ CanStart(c)
  /\ \E body \in InitializeBodiesV2 :
       LET authoritativeAmount == AuthoritativeAmount(body.amount, body.order_id)
           transactionRef == TransactionRefV2(body.reference, nextId)
       IN  /\ inp' = [inp EXCEPT ![c] = [op |-> "initialize", body |-> body]]
           /\ IF body.amount = 0 \/ ToKobo(authoritativeAmount) < 100
                THEN /\ Finish(c, ErrorResponse(500))
                     /\ UNCHANGED nextId
                ELSE /\ nextId' = nextId + 1
                     /\ GotoWith(c, "initialize2_paystack",
                                 [transactionRef |-> transactionRef,
                                  amountInKobo |-> ToKobo(authoritativeAmount),
                                  orderId |-> body.order_id])
  /\ UNCHANGED <<adminVars, clientVars, customers, otpCodes, deployed, orders, ledger, gateway, statusLog, clock>>

\* Lines 838-892: POST /transaction/initialize.
InitializeV2Paystack(c) ==
  /\ pc[c] = "initialize2_paystack"
  /\ \E ok \in BOOLEAN :
       IF ok /\ ~GatewayKnows(loc[c].transactionRef)
         THEN /\ gateway' = GatewayInitialize(loc[c].transactionRef, loc[c].amountInKobo,
                                               loc[c].orderId, NoRef)
              /\ Goto(c, "initialize2_upsert")
         ELSE /\ UNCHANGED gateway
              /\ Finish(c, ErrorResponse(500))
  /\ UNCHANGED <<adminVars, clientVars, customers, otpCodes, deployed, orders, ledger, statusLog, nextId, clock, inp>>

\* The pending row of lines 904-915.
PendingRowV2(transactionRef, amountInKobo) ==
  [reference |-> transactionRef,
   provider_reference |-> transactionRef,
   order_id |-> NoId,
   amount |-> amountInKobo \div 100,
   status |-> "pending",
   client_reference |-> NoRef]

\* Lines 894-939: upsert the pending transaction (a failure is only logged)
\* and answer with the hosted payment URL.
InitializeV2Upsert(c) ==
  /\ pc[c] = "initialize2_upsert"
  /\ \E transactionError \in BOOLEAN :
       ledger' = IF transactionError THEN ledger
                 ELSE UpsertByReference(ledger,
                        PendingRowV2(loc[c].transactionRef, loc[c].amountInKobo))
  /\ Finish(c, OkResponse(NoId, loc[c].transactionRef, 0, loc[c].transactionRef, ""))
  /\ UNCHANGED <<adminVars, clientVars, customers, otpCodes, deployed, orders, gateway, statusLog, nextId, clock, inp>>

\* Bodies of { action: 'verify' }.
VerifyBodiesV2 == { [reference |-> r] : r \in { NoRef, ProvisionalRef } \cup KnownRefs }

\* Lines 953-1003: GET /transaction/verify/:reference; a missing reference,
\* a network error and a rejection by the gateway are all a 500.
VerifyV2Start(c) ==
  /\ deployed = "v2"
  /\ CanStart(c)
  /\ \E body \in VerifyBodiesV2, netDown \in BOOLEAN :
       /\ inp' = [inp EXCEPT ![c] = [op |-> "verify", body |-> body]]
       /\ IF netDown \/ body.reference = NoRef \/ ~GatewayKnows(body.reference)
            THEN Finish(c, ErrorResponse(500))
            ELSE LET tx == GatewayTx(body.reference) IN
                 IF tx.status = "success"
                   THEN GotoWith(c, "verify2_transaction",
                                 [reference |-> body.reference, tx |-> tx])
                   ELSE Finish(c, OkResponse(NoId, body.reference, 0, NoRef, tx.status))
  /\ UNCHANGED <<adminVars, clientVars, customers, otpCodes, deployed, orders, ledger, gateway, statusLog, nextId, clock>>

\* Lines 1005-1017: mark the transaction of the reference completed.
VerifyV2Transaction(c) ==
  /\ pc[c] = "verify2_transaction"
  /\ ledger' = { IF t.reference = loc[c].reference THEN [t EXCEPT !.status = "completed"] ELSE t
                 : t \in ledger }
  /\ Goto(c, "verify2_order")
  /\ UNCHANGED <<adminVars, clientVars, customers, otpCodes, deployed, orders, gateway, statusLog, nextId, clock, inp>>

\* .update({ status: 'confirmed', paid_at: now }).eq('payment_reference', ref)
ConfirmOrders(rows, ref, now) ==
  { IF o.payment_reference = ref
      THEN [o EXCEPT !.status = "confirmed", !.paid_at = now]
      ELSE o : o \in rows }

\* Lines 1019-1056: confirm the order of the reference, stamp paid_at, answer.
VerifyV2Order(c) ==
  /\ pc[c] = "verify2_order"
  /\ orders' = ConfirmOrders(orders, loc[c].reference, clock)
  /\ statusLog' = statusLog \cup { StatusWrite(c, "update", loc[c].reference, loc[c].tx.status,
                                               orders' # orders) }
  /\ clock' = clock + 1
  /\ Finish(c, OkResponse(NoId, loc[c].reference, 0, NoRef, loc[c].tx.status))
  /\ UNCHANGED <<adminVars, clientVars, customers, otpCodes, deployed, ledger, gateway, nextId, inp>>

\* ------------------------------------ paystack-secure, the first version
\* Bodies of { action: 'initialize' } (amount in kobo; reference: the client's
\* provisional reference; order_id: metadata.order_id).
\* parseFloat of a string that holds no number.
NotANumber == -1

IsNaN(amount) == amount = NotANumber

MinAmountKobo == 100

\* The amount check with the lower bound left out.
AmountNotANumber(amountInKobo) == IsNaN(amountInKobo)

\* isNaN(amountInKobo) || amountInKobo < 100
AmountInvalid(amountInKobo) == IsNaN(amountInKobo) \/ amountInKobo < MinAmountKobo

InitializeBodiesV1 ==
  { [amount |-> 50, reference |-> NoRef, order_id |-> NoId, order_number |-> NoRef],
    [amount |-> NotANumber, reference |-> NoRef, order_id |-> NoId, order_number |-> NoRef],
    [amount |-> 250000, reference |-> NoRef, order_id |-> NoId, order_number |-> NoRef],
    [amount |-> 250000, reference |-> ProvisionalRef, order_id |-> NoId,
     order_number |-> NoRef] }
    \cup { [amount |-> 250000, reference |-> ProvisionalRef, order_id |-> o.id,
            order_number |-> NoRef] : o \in orders }
    \cup { [amount |-> 250000, reference |-> NoRef, order_id |-> NoId,
            order_number |-> OrderNumber(o)] : o \in orders }

\* Lines 56-127: validate, mint the server reference, POST /transaction/initialize.
InitializeV1Start(c) ==
  /\ deployed = "v1"
  /\ CanStart(c)
  /\ \E body \in InitializeBodiesV1, ok \in BOOLEAN :
       LET amountInKobo == body.amount
           transactionRef == <<"txn", ToString(nextId)>>
       IN  /\ inp' = [inp EXCEPT ![c] = [op |-> "initialize", body |-> body]]
           /\ IF AmountInvalid(amountInKobo)
                THEN /\ Finish(c, ErrorResponse(500))
                     /\ UNCHANGED <<nextId, gateway>>
                ELSE /\ nextId' = nextId + 1
                     /\ IF ok /\ ~GatewayKnows(transactionRef)
                          THEN /\ gateway' = GatewayInitialize(transactionRef, amountInKobo,
                                                                body.order_id,
                                                                body.order_number)
                               /\ GotoWith(c, IF body.order_id = NoId /\ body.order_number # NoRef
                                                 THEN "initialize1_number"
                                                 ELSE "initialize1_order",
                                           [returnedRef |-> transactionRef,
                                            amountInKobo |-> amountInKobo,
                                            orderId |-> body.order_id,
                                            orderNumber |-> body.order_number,
                                            client_reference |-> body.reference])
                          ELSE /\ UNCHANGED gateway
                               /\ Finish(c, ErrorResponse(500))
  /\ UNCHANGED <<adminVars, clientVars, customers, otpCodes, deployed, orders, ledger, statusLog, clock>>

\* Lines 145-153: without metadata.order_id, the order of metadata.order_number.
InitializeV1ByNumber(c) ==
  /\ pc[c] = "initialize1_number"
  /\ GotoWith(c, "initialize1_order",
              [loc[c] EXCEPT !.orderId = OrderIdByNumber(orders, loc[c].orderNumber)])
  /\ UNCHANGED <<adminVars, clientVars, customers, otpCodes, deployed, orders, ledger, gateway, statusLog, nextId,
                 clock, inp>>

\* Lines 157-164: point the resolved order at the new reference.
InitializeV1Order(c) ==
  /\ pc[c] = "initialize1_order"
  /\ orders' = IF loc[c].orderId # NoId
                 THEN SetPaymentReference(orders, loc[c].orderId, loc[c].returnedRef)
                 ELSE orders
  /\ Goto(c, "initialize1_insert")
  /\ UNCHANGED <<adminVars, clientVars, customers, otpCodes, deployed, ledger, gateway, statusLog, nextId, clock, inp>>

\* txInsert of lines 167-183.
PendingRowV1(locals) ==
  [reference |-> NoRef,
   provider_reference |-> locals.returnedRef,
   order_id |-> locals.orderId,
   amount |-> locals.amountInKobo \div 100,
   status |-> "pending",
   client_reference |-> locals.client_reference]

\* The pending row written with .upsert(row, { onConflict: 'provider_reference' })
\* in place of .insert(row): the row of the reference is overwritten.
UpsertPending(rows, row) ==
  { t \in rows : t.provider_reference # row.provider_reference } \cup { row }

\* .insert(txInsert): the table with the row; a unique violation is an error
\* and leaves the table as it was.
InsertPending(rows, row) == IF CanInsert(rows, row) THEN rows \cup { row } ELSE rows

\* Lines 166-227: insert the pending transaction; without it the answer is a 500.
InitializeV1Insert(c) ==
  /\ pc[c] = "initialize1_insert"
  /\ \E dbDown \in BOOLEAN :
       LET txInsert == PendingRowV1(loc[c])
           inserted == IF dbDown THEN ledger ELSE InsertPending(ledger, txInsert)
           insertErr == inserted = ledger
       IN  /\ ledger' = inserted
           /\ IF insertErr
                THEN Finish(c, ErrorResponse(500))
                ELSE Finish(c, OkResponse(NoId, loc[c].returnedRef, 0, loc[c].returnedRef, ""))
  /\ UNCHANGED <<adminVars, clientVars, customers, otpCodes, deployed, orders, gateway, statusLog, nextId, clock, inp>>

\* --- verifyPayment, first version: the reference and its resolution
\* Length of a reference as a string: txn_ + a timestamp and random suffix,
\* pay_abc123, abc.
TokenLength(token) ==
  CASE token \in { "txn", "pay", "ord", "abc" } -> 3
    [] token = "abc123" -> 6
    [] OTHER -> 20

RECURSIVE RefLength(_)
RefLength(ref) ==
  IF ref = << >> THEN 0
  ELSE IF Len(ref) = 1 THEN TokenLength(ref[1])
  ELSE TokenLength(Head(ref)) + 1 + RefLength(Tail(ref))

MinReferenceLength == 10

\* validateReference (lines 257-265)
ValidateReference(ref) == ref # NoRef /\ RefLength(ref) >= MinReferenceLength

\* `${pfx}%`
IsPrefix(pfx, ref) == Len(pfx) <= Len(ref) /\ SubSeq(ref, 1, Len(pfx)) = pfx

\* `%${part}%`
Contains(ref, part) ==
  \E i \in 1..Len(ref) : i + Len(part) - 1 <= Len(ref) /\ SubSeq(ref, i, i + Len(part) - 1) = part

\* The state of the resolution: whether the last gateway answer was ok, the
\* effective reference and the strategy recorded.
Resolution(ok, effectiveRef, mappingStrategy) ==
  [ok |-> ok, effectiveRef |-> effectiveRef, mappingStrategy |-> mappingStrategy]

\* A mapped reference becomes the effective one and is looked up at the gateway.
Remap(ref, strategy) == Resolution(GatewayKnows(ref), ref, strategy)

\* Lines 336-383, A: a pay_ reference is mapped through metadata.client_reference,
\* else through the hint order's transaction, else through its payment_reference.
MapClient(st, reference, hint) ==
  LET mappedTx == { t \in ledger : t.client_reference = reference }
      byOrder == { t \in ledger : t.order_id = hint }
      orderRow == { o \in orders : o.id = hint /\ o.payment_reference # NoRef }
  IN  IF Head(reference) # "pay" THEN st
      ELSE IF HasSingle(mappedTx)
        THEN Remap(Single(mappedTx).provider_reference, "client_metadata")
      ELSE IF hint = NoId THEN st
      ELSE IF HasSingle(byOrder)
        THEN Remap(Single(byOrder).provider_reference, "by_order_id")
      ELSE IF HasSingle(orderRow)
        THEN Remap(Single(orderRow).payment_reference, "orders_payment_reference")
      ELSE st

\* reference, or txn_ + reference when it lacks the prefix
Prefixed(reference) == IF Head(reference) = "txn" THEN reference ELSE <<"txn">> \o reference

\* Lines 390-399, B0: try the reference with txn_ in front.
PrefixAdded(st, reference) ==
  IF st.ok \/ Head(reference) = "txn" THEN st
  ELSE IF GatewayKnows(Prefixed(reference))
    THEN Resolution(TRUE, Prefixed(reference), "prefix_added")
    ELSE Resolution(FALSE, st.effectiveRef, "prefix_added")

\* `${pfx}%` against a stored reference
PrefixMatch(ref, pfx) == IsPrefix(pfx, ref)

\* for (const pfx of candidates): the first of the reference and its txn_
\* variant that, as a prefix, selects exactly one of the stored references.
FirstMatch(refs, reference) ==
  LET byOriginal == { r \in refs : PrefixMatch(r, reference) }
      byPrefixed == { r \in refs : PrefixMatch(r, Prefixed(reference)) }
  IN  IF HasSingle(byOriginal) THEN Single(byOriginal)
      ELSE IF HasSingle(byPrefixed) THEN Single(byPrefixed)
      ELSE NoRef

\* One row of provider_reference / payment_reference per table row.
LedgerRefs == { t.provider_reference : t \in ledger }

OrderRefs == { o.payment_reference : o \in orders } \ { NoRef }

\* Lines 401-448, B1 and B2: prefix match in payment_transactions, then orders.
TxPrefixMatch(st, reference) ==
  LET matchedRef == FirstMatch(LedgerRefs, reference)
  IN  IF st.ok \/ matchedRef = NoRef THEN st ELSE Remap(matchedRef, "tx_prefix_match")

OrdersPrefixMatch(st, reference) ==
  LET matchedRef == FirstMatch(OrderRefs, reference)
  IN  IF st.ok \/ matchedRef = NoRef THEN st ELSE Remap(matchedRef, "orders_prefix_match")

\* Lines 450-479, B3 and B4: contains match in payment_transactions, then orders.
TxContainsMatch(st, reference) ==
  LET byContains == { r \in LedgerRefs : Contains(r, reference) }
  IN  IF st.ok \/ ~HasSingle(byContains) THEN st
      ELSE Remap(Single(byContains), "tx_contains_match")

OrdersContainsMatch(st, reference) ==
  LET orderContains == { r \in OrderRefs : Contains(r, reference) }
  IN  IF st.ok \/ ~HasSingle(orderContains) THEN st
      ELSE Remap(Single(orderContains), "orders_contains_match")

\* Lines 330-483: after the lookup of the reference as sent has failed, the
\* mappings in their order.
ResolveReference(reference, hint) ==
  LET direct == Resolution(FALSE, reference, "")
  IN  OrdersContainsMatch(
        TxContainsMatch(
          OrdersPrefixMatch(
            TxPrefixMatch(
              PrefixAdded(MapClient(direct, reference, hint), reference),
              reference),
            reference),
          reference),
        reference)

\* --- verifyPayment, first version: the handler
\* Bodies of { action: 'verify' }: a stored reference, one without its txn_
\* prefix, a provisional, a short or no reference; order_id is the hint, sent
\* with a provisional reference or one in no known format.
VerifyBodiesV1 ==
  { [reference |-> r, order_id |-> NoId]
    : r \in { NoRef, ShortRef, ProvisionalRef } \cup KnownRefs
            \cup { Tail(k) : k \in { k \in KnownRefs : Head(k) = "txn" } } }
    \cup { [reference |-> r, order_id |-> o.id]
           : r \in { ProvisionalRef, ForeignRef }, o \in orders }

\* verifyWithPaystackRetry(effectiveRef, 3) (line 328): maxRetries
MaxRetries == 3

\* Math.pow(2, attempt): the seconds waited after a failed attempt
RetryDelay(attempt) == 2 ^ attempt

\* attempt === maxRetries, the negation of attempt < maxRetries in the loop
LastAttemptLate(attempt) == attempt = MaxRetries + 1

LastAttempt(attempt) == attempt = MaxRetries

\* The catch branch of an attempt (lines 310-317): log, throw or wait; the
\* tables are not written.
FailedAfterNetworkFailure(rows) == { [t EXCEPT !.status = "failed"] : t \in rows }

AfterNetworkFailure(rows) == rows

\* The local variables of the handler once the gateway has answered for ref.
Verified(reference, st) ==
  LET tx == GatewayTx(st.effectiveRef)
  IN  [reference |-> reference,
       effectiveRef |-> st.effectiveRef,
       mappingStrategy |-> st.mappingStrategy,
       tx |-> tx,
       orderId |-> tx.order_id]

\* Lines 230-282: read the reference and validate it; a missing or short
\* reference throws.
VerifyV1Start(c) ==
  /\ deployed = "v1"
  /\ CanStart(c)
  /\ \E body \in VerifyBodiesV1 :
       /\ inp' = [inp EXCEPT ![c] = [op |-> "verify", body |-> body]]
       /\ IF ~ValidateReference(body.reference)
            THEN Finish(c, ErrorResponse(500))
            ELSE GotoWith(c, "verify1_lookup",
                          [reference |-> body.reference, hint |-> body.order_id,
                           attempt |-> 1, delays |-> << >>, lastError |-> ""])
  /\ UNCHANGED <<adminVars, clientVars, customers, otpCodes, deployed, orders, ledger, gateway, statusLog, nextId, clock>>

\* The handler waits RetryDelay(attempt) seconds and makes its next attempt;
\* lastError is what the attempt before ended in.
NextAttempt(locals, lastError) ==
  [locals EXCEPT !.attempt = @ + 1,
                 !.delays = Append(@, RetryDelay(locals.attempt)),
                 !.lastError = lastError]

\* Lines 282-321: one attempt of verifyWithPaystackRetry.  A network error
\* on the last attempt is thrown, an earlier one waits and tries again; so
\* does "Transaction reference not found" before the last attempt.
VerifyV1Lookup(c) ==
  /\ pc[c] = "verify1_lookup"
  /\ \E netDown \in BOOLEAN :
       IF netDown
         THEN /\ ledger' = AfterNetworkFailure(ledger)
              /\ IF LastAttempt(loc[c].attempt)
                   THEN Finish(c, ErrorResponse(500))
                   ELSE GotoWith(c, "verify1_lookup", NextAttempt(loc[c], "network"))
         ELSE /\ UNCHANGED ledger
              /\ IF GatewayKnows(loc[c].reference)
                   THEN GotoWith(c, "verify1_order",
                                 Verified(loc[c].reference,
                                          Resolution(TRUE, loc[c].reference, "")))
                   ELSE IF LastAttempt(loc[c].attempt)
                     THEN GotoWith(c, "verify1_resolve",
                                   [loc[c] EXCEPT !.lastError = "not_found"])
                     ELSE GotoWith(c, "verify1_lookup", NextAttempt(loc[c], "not_found"))
  /\ UNCHANGED <<adminVars, clientVars, customers, otpCodes, deployed, orders, gateway, statusLog, nextId, clock, inp>>

\* Lines 330-503: the reference was not found: map it and look the mapped
\* reference up once.  A network error there is caught and logged.  Without
\* a gateway match the answer is a 200 with status false.
VerifyV1Resolve(c) ==
  /\ pc[c] = "verify1_resolve"
  /\ LET st == ResolveReference(loc[c].reference, loc[c].hint)
     IN  \E netDown \in BOOLEAN :
           IF netDown
             THEN /\ st.mappingStrategy # ""
                  /\ Finish(c, ErrorResponse(200))
             ELSE IF ~st.ok
               THEN Finish(c, ErrorResponse(200))
               ELSE GotoWith(c, "verify1_order", Verified(loc[c].reference, st))
  /\ UNCHANGED <<adminVars, clientVars, customers, otpCodes, deployed, orders, ledger, gateway, statusLog, nextId, clock, inp>>

\* The resolution by the reference match alone, the metadata ignored.
VerifyV1ResolveOrderByReference(c) ==
  /\ pc[c] = "verify1_order"
  /\ LET byRef == { o \in orders : o.payment_reference = loc[c].effectiveRef }
         orderId == IF HasSingle(byRef) THEN Single(byRef).id
                    ELSE NoId
     IN  GotoWith(c, IF orderId = NoId /\ loc[c].tx.order_number # NoRef
                       THEN "verify1_number"
                       ELSE "verify1_upsert",
                  [loc[c] EXCEPT !.orderId = orderId])
  /\ UNCHANGED <<adminVars, clientVars, customers, otpCodes, deployed, orders, ledger, gateway, statusLog, nextId, clock, inp>>

\* Lines 516-536: without metadata.order_id, the order that holds the reference.
VerifyV1ResolveOrder(c) ==
  /\ pc[c] = "verify1_order"
  /\ LET byRef == { o \in orders : o.payment_reference = loc[c].effectiveRef }
         orderId == IF loc[c].orderId # NoId THEN loc[c].orderId
                    ELSE IF HasSingle(byRef) THEN Single(byRef).id
                    ELSE NoId
     IN  GotoWith(c, IF orderId = NoId /\ loc[c].tx.order_number # NoRef
                       THEN "verify1_number"
                       ELSE "verify1_upsert",
                  [loc[c] EXCEPT !.orderId = orderId])
  /\ UNCHANGED <<adminVars, clientVars, customers, otpCodes, deployed, orders, ledger, gateway, statusLog, nextId, clock, inp>>

\* Lines 528-536: still without an order, the order of metadata.order_number.
VerifyV1ResolveByNumber(c) ==
  /\ pc[c] = "verify1_number"
  /\ GotoWith(c, "verify1_upsert",
              [loc[c] EXCEPT !.orderId = OrderIdByNumber(orders, loc[c].tx.order_number)])
  /\ UNCHANGED <<adminVars, clientVars, customers, otpCodes, deployed, orders, ledger, gateway, statusLog, nextId,
                 clock, inp>>

\* baseUpdate.status (line 542)
LedgerStatus(txStatus) == IF txStatus = "success" THEN "paid" ELSE txStatus

\* payload of lines 538-552
VerifyPayload(locals) ==
  [reference |-> NoRef,
   provider_reference |-> locals.effectiveRef,
   order_id |-> locals.orderId,
   amount |-> locals.tx.amount \div 100,
   status |-> LedgerStatus(locals.tx.status),
   client_reference |-> NoRef]

\* Lines 554-563: upsert the outcome on provider_reference.
VerifyV1Upsert(c) ==
  /\ pc[c] = "verify1_upsert"
  /\ \E upsertError \in BOOLEAN :
       IF upsertError
         THEN /\ UNCHANGED ledger
              /\ Goto(c, "verify1_find")
         ELSE /\ ledger' = UpsertByProviderReference(ledger, VerifyPayload(loc[c]))
              /\ Goto(c, "verify1_rpc")
  /\ UNCHANGED <<adminVars, clientVars, customers, otpCodes, deployed, orders, gateway, statusLog, nextId, clock, inp>>

\* Lines 565-571: the fallback looks for the row of the reference.
VerifyV1Find(c) ==
  /\ pc[c] = "verify1_find"
  /\ LET existing == { t \in ledger : t.provider_reference = loc[c].effectiveRef }
     IN  IF HasSingle(existing) THEN Goto(c, "verify1_update") ELSE Goto(c, "verify1_insert")
  /\ UNCHANGED <<adminVars, clientVars, customers, otpCodes, deployed, orders, ledger, gateway, statusLog, nextId, clock, inp>>

\* Lines 572-576: the fallback updates the row it found.
VerifyV1Update(c) ==
  /\ pc[c] = "verify1_update"
  /\ ledger' = IF \E t \in ledger : t.provider_reference = loc[c].effectiveRef
                 THEN UpsertByProviderReference(ledger, VerifyPayload(loc[c]))
                 ELSE ledger
  /\ Goto(c, "verify1_rpc")
  /\ UNCHANGED <<adminVars, clientVars, customers, otpCodes, deployed, orders, gateway, statusLog, nextId, clock, inp>>

\* Lines 577-579: the fallback inserts a row (a unique violation changes nothing).
VerifyV1Insert(c) ==
  /\ pc[c] = "verify1_insert"
  /\ ledger' = IF CanInsert(ledger, VerifyPayload(loc[c]))
                 THEN ledger \cup { VerifyPayload(loc[c]) }
                 ELSE ledger
  /\ Goto(c, "verify1_rpc")
  /\ UNCHANGED <<adminVars, clientVars, customers, otpCodes, deployed, orders, gateway, statusLog, nextId, clock, inp>>

\* The handle_successful_payment database function: the order that holds the
\* reference becomes paid and confirmed, unless it is paid already.
HandleSuccessfulPayment(rows, ref, now) ==
  { IF o.payment_reference = ref /\ o.payment_status # "paid"
      THEN [o EXCEPT !.payment_status = "paid", !.status = "confirmed", !.paid_at = now]
      ELSE o : o \in rows }

\* rpcResult.order_id
RpcOrderId(rows, ref) ==
  LET found == { o \in rows : o.payment_reference = ref }
  IN  IF found = {} THEN NoId ELSE (CHOOSE o \in found : TRUE).id

\* Lines 582-604: call handle_successful_payment for the effective reference.
VerifyV1Rpc(c) ==
  /\ pc[c] = "verify1_rpc"
  /\ orders' = HandleSuccessfulPayment(orders, loc[c].effectiveRef, clock)
  /\ statusLog' = statusLog \cup { StatusWrite(c, "rpc", loc[c].effectiveRef, loc[c].tx.status,
                                               orders' # orders) }
  /\ clock' = clock + 1
  /\ LET rpcOrderId == RpcOrderId(orders, loc[c].effectiveRef)
     IN  GotoWith(c, "verify1_reference",
                  [loc[c] EXCEPT !.orderId = IF rpcOrderId # NoId THEN rpcOrderId ELSE @])
  /\ UNCHANGED <<adminVars, clientVars, customers, otpCodes, deployed, ledger, gateway, nextId, inp>>

\* Lines 606-612: write the effective reference on the resolved order.
VerifyV1Reference(c) ==
  /\ pc[c] = "verify1_reference"
  /\ orders' = IF loc[c].orderId # NoId
                 THEN SetPaymentReference(orders, loc[c].orderId, loc[c].effectiveRef)
                 ELSE orders
  /\ Goto(c, "verify1_respond")
  /\ UNCHANGED <<adminVars, clientVars, customers, otpCodes, deployed, ledger, gateway, statusLog, nextId, clock, inp>>

\* Lines 625-667: read the transaction with its order and answer.
VerifyV1Respond(c) ==
  /\ pc[c] = "verify1_respond"
  /\ LET txWithOrder == { t \in ledger : t.provider_reference = loc[c].effectiveRef }
         orderInfo == IF HasSingle(txWithOrder) /\ Single(txWithOrder).order_id \in OrderIds
                        THEN Single(txWithOrder).order_id
                        ELSE NoId
     IN  Finish(c, OkResponse(orderInfo, loc[c].effectiveRef, 0, NoRef, loc[c].tx.status))
  /\ UNCHANGED <<adminVars, clientVars, customers, otpCodes, deployed, orders, ledger, gateway, statusLog, nextId, clock, inp>>

\* ------------------------------------------------------------ the customer
\* The customer completes or abandons the payment on Paystack's hosted page.
GatewaySettle ==
  /\ Cardinality({ t \in gateway : t.status # "abandoned" }) < MaxPayments
  /\ \E t \in gateway, outcome \in { "success", "failed" } :
       /\ t.status = "abandoned"
       /\ gateway' = (gateway \ { t }) \cup { [t EXCEPT !.status = outcome] }
  /\ UNCHANGED <<adminVars, clientVars, customers, otpCodes, deployed, orders, ledger, statusLog, nextId, clock, pc, inp, loc, resp>>

\* The customer pays again on the hosted page after a failed attempt.
GatewayRetry ==
  /\ \E t \in gateway :
       /\ t.status = "failed"
       /\ gateway' = (gateway \ { t }) \cup { [t EXCEPT !.status = "success"] }
  /\ UNCHANGED <<adminVars, clientVars, customers, otpCodes, deployed, orders, ledger, statusLog, nextId, clock, pc, inp, loc, resp>>

\* What happens at the gateway without a request of the program.
GatewayNext == GatewaySettle \/ GatewayRetry

\* ---------------------------------------------------------- specification
\* process-checkout
\* ------------------------------------- the client's check of the response
\* Lines 223-240 of process-checkout: the JSON body of a success response.
CheckoutSuccessBody(response) ==
  [success |-> TRUE,
   order |-> [id |-> response.order_id,
              reference |-> response.reference,
              payment_reference |-> response.reference,
              total_amount |-> response.total_amount,
              status |-> "pending"],
   payment |-> [authorization_url |-> response.authorization_url,
                access_code |-> response.authorization_url,
                reference |-> response.reference]]

\* responseData.payment?.field, undefined (here NoRef) when it is absent.
PaymentField(responseData, field) ==
  IF "payment" \in DOMAIN responseData /\ field \in DOMAIN responseData.payment
    THEN responseData.payment[field]
    ELSE NoRef

\* validatePaymentInitializationData (paymentDataValidator.ts, lines 31-131):
\* the fields it reports missing; isValid is that there are none.
MissingFields(responseData) ==
  (IF "success" \in DOMAIN responseData /\ responseData.success = TRUE
     THEN {} ELSE { "success" })
  \cup (IF "payment" \notin DOMAIN responseData THEN { "payment" }
        ELSE (IF /\ PaymentField(responseData, "payment_url") = NoRef
                 /\ PaymentField(responseData, "authorization_url") = NoRef
                 /\ PaymentField(responseData, "access_code") = NoRef
                THEN { "payment.payment_url" } ELSE {})
             \cup (IF PaymentField(responseData, "reference") = NoRef
                     THEN { "payment.reference" } ELSE {}))
  \cup (IF "total_amount" \in DOMAIN responseData /\ responseData.total_amount > 0
        THEN {} ELSE { "total_amount" })
  \cup (IF "order_number" \in DOMAIN responseData /\ responseData.order_number # NoRef
        THEN {} ELSE { "order_number" })

ValidatePaymentInitializationData(responseData) ==
  [isValid |-> MissingFields(responseData) = {},
   missingFields |-> MissingFields(responseData)]

\* ------------------------------------------ customer registration (part_000)
\* Email addresses are sequences of characters.
AdaUpperEmail == <<"A", "@", "x", ".", "y">>
AdaEmail == <<"a", "@", "x", ".", "y">>
BobEmail == <<"b", "@", "x", ".", "y">>
NoDotEmail == <<"a", "@", "x">>

UpperAlphabet == <<"A", "B", "C", "D", "E", "F", "G", "H", "I", "J", "K", "L", "M", "N", "O", "P", "Q", "R", "S", "T", "U", "V", "W", "X", "Y", "Z">>

LowerAlphabet == <<"a", "b", "c", "d", "e", "f", "g", "h", "i", "j", "k", "l", "m", "n", "o", "p", "q", "r", "s", "t", "u", "v", "w", "x", "y", "z">>

\* String.prototype.toLowerCase, on one character.
LowerChar(ch) ==
  IF \E i \in 1..Len(UpperAlphabet) : UpperAlphabet[i] = ch
    THEN LowerAlphabet[CHOOSE i \in 1..Len(UpperAlphabet) : UpperAlphabet[i] = ch]
    ELSE ch

ToLowerCase(email) == [i \in 1..Len(email) |-> LowerChar(email[i])]

\* /^[^\s@]+@[^\s@]+\.[^\s@]+$/ : one @, no white space, a character before
\* the @, and after it a dot with a character on either side.
EmailRegexTest(email) ==
  LET ats == { i \in 1..Len(email) : email[i] = "@" }
  IN  /\ Cardinality(ats) = 1
      /\ \A i \in 1..Len(email) : email[i] # " "
      /\ \E at \in ats : /\ at > 1
                          /\ \E dot \in (at + 2)..(Len(email) - 1) : email[dot] = "."

MinPasswordLength == 8

GoodPassword == <<"p", "a", "s", "s", "w", "o", "r", "d">>
ShortPassword == <<"p", "w">>

\* Bodies of a registration request (an empty field: the field is absent).
RegistrationBodies ==
  { [email |-> e, password |-> GoodPassword, name |-> "Ada"]
    : e \in { AdaUpperEmail, AdaEmail, BobEmail, NoDotEmail } }
    \cup { [email |-> AdaEmail, password |-> ShortPassword, name |-> "Ada"],
           [email |-> AdaEmail, password |-> GoodPassword, name |-> ""] }

\* .from('customer_accounts').select(...).eq('email', email).maybeSingle()
ExistingCustomer(rows, email) ==
  LET found == { a \in rows : a.email = email }
  IN  IF HasSingle(found) THEN found ELSE {}

\* Lines 112-180: validate the body and look the account of the email up; a
\* verified account ends the registration.
RegisterStart(c) ==
  /\ CanStart(c)
  /\ \E body \in RegistrationBodies :
       /\ inp' = [inp EXCEPT ![c] = [op |-> "register", body |-> body]]
       /\ IF \/ body.email = << >> \/ body.password = << >> \/ body.name = ""
             \/ ~EmailRegexTest(body.email)
             \/ Len(body.password) < MinPasswordLength
            THEN Finish(c, ErrorResponse(400))
            ELSE LET email == ToLowerCase(body.email)
                     existingCustomer == ExistingCustomer(customers, email)
                 IN  IF \E a \in existingCustomer : a.email_verified
                       THEN Finish(c, ErrorResponse(400))
                       ELSE GotoWith(c, "register_otp",
                                     [email |-> email,
                                      existingCustomer |-> existingCustomer # {}])
  /\ UNCHANGED <<adminVars, clientVars, customers, otpCodes, deployed, orders, ledger, gateway, statusLog,
                 nextId, clock>>

\* Lines 188-227: store the one-time code of the registration.
RegisterOtp(c) ==
  /\ pc[c] = "register_otp"
  /\ \E otpError \in BOOLEAN :
       IF otpError
         THEN /\ Finish(c, ErrorResponse(500))
              /\ UNCHANGED <<otpCodes, nextId>>
         ELSE /\ otpCodes' = otpCodes \cup { [id |-> nextId, email |-> loc[c].email] }
              /\ nextId' = nextId + 1
              /\ Goto(c, "register_account")
  /\ UNCHANGED <<adminVars, clientVars, customers, deployed, orders, ledger, gateway, statusLog, clock, inp>>

\* Lines 229-274: insert the account when the lookup found none (an error of
\* the insert is only logged) and answer.
RegisterAccount(c) ==
  /\ pc[c] = "register_account"
  /\ \E customerError \in BOOLEAN :
       IF loc[c].existingCustomer \/ customerError
         THEN UNCHANGED <<customers, nextId>>
         ELSE /\ customers' = customers \cup
                     { [id |-> nextId, email |-> loc[c].email, email_verified |-> FALSE] }
              /\ nextId' = nextId + 1
  /\ Finish(c, OkResponse(NoId, NoRef, 0, NoRef, ""))
  /\ UNCHANGED <<adminVars, clientVars, otpCodes, deployed, orders, ledger, gateway, statusLog, clock, inp>>

\* --------------------------------------------- admin passwords (admin-user)
\* Passwords, like email addresses, are sequences of characters.
DigitChars == { "0", "1", "2", "3", "4", "5", "6", "7", "8", "9" }

\* The class of special characters of both validators: ! @ # $ % ^ & * ( )
\* , . ? " : { } | < > _ + = - [ ] \ / ~ and the backquote (written out, as a
\* string cannot hold it).
SpecialChars == { "!", "@", "#", "$", "%", "^", "&", "*", "(", ")", ",", ".", "?", "\"", ":", "{", "}", "|", "<", ">", "_", "+", "=", "-", "[", "]", "\\", "/", "~", "backquote" }

\* The characters of a sequence.
Chars(str) == { str[i] : i \in 1..Len(str) }

\* String.prototype.includes
Includes(str, pattern) ==
  \E i \in 0..(Len(str) - Len(pattern)) : SubSeq(str, i + 1, i + Len(pattern)) = pattern

\* email.split('@')[0]
RECURSIVE BeforeAt(_)
BeforeAt(email) ==
  IF email = << >> \/ Head(email) = "@" THEN << >>
  ELSE <<Head(email)>> \o BeforeAt(Tail(email))

\* ADMIN_PASSWORD_REQUIREMENTS.minLength
RequirementsMinLength == 12

\* The list without 'admin'.
ForbiddenPatternsWithoutAdmin ==
  << <<"p", "a", "s", "s", "w", "o", "r", "d">>,
     <<"r", "o", "o", "t">>,
     <<"u", "s", "e", "r">>,
     <<"t", "e", "s", "t">>,
     <<"l", "o", "g", "i", "n">>,
     <<"1", "2", "3", "4", "5", "6">>,
     <<"q", "w", "e", "r", "t", "y">>,
     <<"l", "e", "t", "m", "e", "i", "n">>,
     <<"w", "e", "l", "c", "o", "m", "e">>,
     <<"s", "t", "a", "r", "t", "e", "r", "s", "m", "a", "l", "l", "c", "h", "o", "p", "s">> >>

\* ADMIN_PASSWORD_REQUIREMENTS.forbiddenPatterns, in the order find() tries them
ForbiddenPatterns ==
  << <<"p", "a", "s", "s", "w", "o", "r", "d">>,
     <<"a", "d", "m", "i", "n">>,
     <<"r", "o", "o", "t">>,
     <<"u", "s", "e", "r">>,
     <<"t", "e", "s", "t">>,
     <<"l", "o", "g", "i", "n">>,
     <<"1", "2", "3", "4", "5", "6">>,
     <<"q", "w", "e", "r", "t", "y">>,
     <<"l", "e", "t", "m", "e", "i", "n">>,
     <<"w", "e", "l", "c", "o", "m", "e">>,
     <<"s", "t", "a", "r", "t", "e", "r", "s", "m", "a", "l", "l", "c", "h", "o", "p", "s">> >>

\* An error message is a sequence: its text and, for a forbidden pattern,
\* the pattern it names.
EmailPartsError == <<"Password cannot contain parts of your email address">>

\* validateAdminPassword(password, email): its errors, and valid when there
\* are none (an absent email is the empty sequence).  The warnings, which
\* never make a password invalid, are left out.
ValidateAdminPassword(password, email) ==
  LET lowerPassword == ToLowerCase(password)
      emailLocal == ToLowerCase(BeforeAt(email))
      found == { i \in 1..Len(ForbiddenPatterns) :
                   Includes(lowerPassword, ToLowerCase(ForbiddenPatterns[i])) }
      foundForbiddenPattern ==
        IF found = {} THEN << >>
        ELSE ForbiddenPatterns[CHOOSE i \in found : \A j \in found : i <= j]
      errors ==
        IF password = << >> THEN { <<"Password is required">> }
        ELSE (IF Len(password) < RequirementsMinLength
                THEN { <<"Password must be at least 12 characters long">> } ELSE {})
             \cup (IF Chars(password) \cap Chars(UpperAlphabet) = {}
                     THEN { <<"Password must contain at least one uppercase letter">> } ELSE {})
             \cup (IF Chars(password) \cap Chars(LowerAlphabet) = {}
                     THEN { <<"Password must contain at least one lowercase letter">> } ELSE {})
             \cup (IF Chars(password) \cap DigitChars = {}
                     THEN { <<"Password must contain at least one number">> } ELSE {})
             \cup (IF Chars(password) \cap SpecialChars = {}
                     THEN { <<"Password must contain at least one special character">> } ELSE {})
             \cup (IF foundForbiddenPattern # << >>
                     THEN { <<"Password cannot contain common patterns like", foundForbiddenPattern>> }
                     ELSE {})
             \cup (IF email # << >> /\ Includes(lowerPassword, emailLocal) /\ Len(emailLocal) > 3
                     THEN { EmailPartsError } ELSE {})
  IN  [valid |-> errors = {}, errors |-> errors]

\* The server's minimum length of an immediate_password.
ImmediatePasswordMinLength == 12

\* Lines 132-169 of admin-user-creator: the code of the answer to a request
\* with this immediate_password ("" when the request goes on; an absent
\* password is the empty sequence and is not checked).
ImmediatePasswordCode(password) ==
  IF password = << >> THEN ""
  ELSE IF Len(password) < ImmediatePasswordMinLength THEN "WEAK_PASSWORD"
  ELSE IF \/ Chars(password) \cap Chars(UpperAlphabet) = {}
          \/ Chars(password) \cap Chars(LowerAlphabet) = {}
          \/ Chars(password) \cap DigitChars = {}
          \/ Chars(password) \cap SpecialChars = {}
         THEN "WEAK_PASSWORD"
  ELSE IF \E pattern \in
            { <<"p", "a", "s", "s", "w", "o", "r", "d">>,
            <<"a", "d", "m", "i", "n">>,
            <<"r", "o", "o", "t">>,
            <<"1", "2", "3", "4", "5", "6">>,
            <<"q", "w", "e", "r", "t", "y">> } :
            Includes(ToLowerCase(password), pattern)
         THEN "WEAK_PASSWORD"
  ELSE ""

\* What an admin can enter in the creation form: a password, made of two
\* pieces, and an email address (john.smith@example.com or jo@example.com)
\* or none.
CredentialInputs ==
  { [password |-> prefix \o suffix, email |-> email] :
      prefix \in
        { << >>,
          <<"j", "o", "h", "n">>,
          <<"j", "o", "h", "n", ".", "s", "m", "i", "t", "h">>,
          <<"A", "d", "m", "i", "n">>,
          <<"Z", "q", "7", "#">>,
          <<"P", "a", "s", "s", "w", "o", "r", "d">> },
      suffix \in
        { <<"s", "m", "i", "t", "h", "1", "2", "3", "!">>,
          <<"Z", "q", "7", "#", "Z", "q", "7", "#">>,
          <<"Z", "q", "7", "#", "Z", "q", "7", "#", "Z", "q", "7", "#">>,
          <<"z", "q", "7", "#", "z", "q", "7", "#", "z", "q", "7", "#">>,
          <<"R", "o", "o", "t", "2", "0", "2", "4", "!", "x", "y", "Z">>,
          <<"J", "O", "H", "N", ".", "S", "M", "I", "T", "H", "#", "1", "a">> },
      email \in
        { <<"j", "o", "h", "n", ".", "s", "m", "i", "t", "h", "@", "e", "x", "a", "m", "p", "l", "e", ".", "c", "o", "m">>,
          <<"j", "o", "@", "e", "x", "a", "m", "p", "l", "e", ".", "c", "o", "m">>,
          << >> } }

\* createAdminUser, lines 575-590 of useCart.ts: validateAdminUserData runs
\* validateAdminPassword on the password with the email of the form.
ClientValidate ==
  /\ validation.stage = "none"
  /\ validation' = [stage |-> "client",
                    client |-> ValidateAdminPassword(credentials.password, credentials.email),
                    code |-> ""]
  /\ UNCHANGED <<adminVars, serverVars, credentials, currentStatus, transitions, cart, cartClock>>

\* createAdminUser, lines 603-613, reached when the validation passed: the
\* function is invoked with the password and checks it in its turn.
ServerValidate ==
  /\ validation.stage = "client"
  /\ validation.client.valid
  /\ validation' = [validation EXCEPT !.stage = "server",
                                      !.code = ImmediatePasswordCode(credentials.password)]
  /\ UNCHANGED <<adminVars, serverVars, credentials, currentStatus, transitions, cart, cartClock>>

PasswordNext == ClientValidate \/ ServerValidate

\* ------------------------------------------------------ admin-user-creator
\* The profiles the project starts with: an administrator (b@x.y), a member
\* of staff (s@x.y) and an administrator whose profile was deactivated
\* (f@x.y).
SeedProfiles ==
  { [id |-> 1, email |-> BobEmail, role |-> "admin", is_active |-> TRUE],
    [id |-> 2, email |-> <<"s", "@", "x", ".", "y">>, role |-> "staff", is_active |-> TRUE],
    [id |-> 3, email |-> <<"f", "@", "x", ".", "y">>, role |-> "admin", is_active |-> FALSE] }

\* Their users in Supabase auth.
SeedUsers == { [id |-> p.id, email |-> p.email] : p \in SeedProfiles }

\* The Authorization header of a request: absent, or a bearer token, which
\* is the id of the user it was issued to (0: a token issued to no one).
AuthorizationHeaders == { NoRef } \cup { <<"Bearer", u>> : u \in 0..4 }

\* A body that is not JSON.
MalformedBody == [malformed |-> TRUE]

\* Bodies of a creation request (an empty field: the field is absent).
AdminBodies ==
  { [email |-> AdaEmail, role |-> "admin", immediate_password |->
       <<"Z", "q", "7", "#", "Z", "q", "7", "#", "Z", "q", "7", "#">>],
    [email |-> AdaUpperEmail, role |-> "staff", immediate_password |-> << >>],
    [email |-> BobEmail, role |-> "staff", immediate_password |-> << >>],
    [email |-> AdaEmail, role |-> "owner", immediate_password |-> << >>],
    [email |-> AdaEmail, role |-> "admin", immediate_password |-> <<"Z", "q", "7", "#">>],
    [email |-> << >>, role |-> "admin", immediate_password |-> << >>],
    MalformedBody }

\* An answer of admin-user-creator: its HTTP status, success and code.
AdminResponse(status, success, code) ==
  [status |-> status, success |-> success, code |-> code]

\* Line 80, with the check of is_active left out.
AccessDeniedToOthers(profile) ==
  profile = {} \/ \E p \in profile : p.role # "admin"

\* Line 80: !profile || profile.role !== 'admin' || !profile.is_active
AccessDenied(profile) ==
  profile = {} \/ \E p \in profile : p.role # "admin" \/ ~p.is_active

\* Lines 11-62: the preflight answer, the rate limit and the Authorization
\* header.
AdminStart(c) ==
  /\ CanStart(c)
  /\ \E method \in { "POST", "OPTIONS" }, authorization \in AuthorizationHeaders,
        allowed \in BOOLEAN :
       /\ method = "OPTIONS" => (authorization = NoRef /\ allowed)
       /\ inp' = [inp EXCEPT ![c] = [op |-> "admin", method |-> method,
                                     authorization |-> authorization]]
       /\ IF method = "OPTIONS" THEN Finish(c, AdminResponse(200, FALSE, "preflight"))
          ELSE IF ~allowed THEN Finish(c, AdminResponse(429, FALSE, ""))
          ELSE IF authorization = NoRef THEN Finish(c, AdminResponse(401, FALSE, ""))
          ELSE GotoWith(c, "admin_user", [token |-> authorization[2]])
  /\ UNCHANGED <<adminVars, clientVars, customers, otpCodes, deployed, orders, ledger,
                 gateway, statusLog, nextId, clock>>

\* Lines 64-72: supabase.auth.getUser(token).
AdminGetUser(c) ==
  /\ pc[c] = "admin_user"
  /\ \E userError \in BOOLEAN :
       LET user == { u \in authUsers : u.id = loc[c].token }
       IN  IF userError \/ user = {}
             THEN Finish(c, AdminResponse(401, FALSE, ""))
             ELSE GotoWith(c, "admin_profile", [user |-> loc[c].token])
  /\ UNCHANGED <<adminVars, clientVars, customers, otpCodes, deployed, orders, ledger,
                 gateway, statusLog, nextId, clock, inp>>

\* Lines 74-169: the profile of the caller (.single(): none unless there is
\* exactly one), then the body and its checks.
\* validateEmail accepts the address or not, and hands back the address in
\* lower case or nothing.
AdminProfile(c) ==
  /\ pc[c] = "admin_profile"
  /\ IF AccessDenied(IF HasSingle({ p \in profiles : p.id = loc[c].user })
                       THEN { p \in profiles : p.id = loc[c].user } ELSE {})
       THEN Finish(c, AdminResponse(403, FALSE, "")) /\ UNCHANGED inp
       ELSE \E body \in AdminBodies, emailValid \in BOOLEAN, sanitized \in BOOLEAN :
              /\ inp' = [inp EXCEPT ![c] = [op |-> "admin", method |-> inp[c].method,
                                            authorization |-> inp[c].authorization,
                                            body |-> body]]
              /\ IF body = MalformedBody
                   THEN Finish(c, AdminResponse(500, FALSE, ""))
                 ELSE IF body.email = << >> \/ body.role = ""
                   THEN Finish(c, AdminResponse(400, FALSE, ""))
                 ELSE IF ~emailValid
                   THEN Finish(c, AdminResponse(400, FALSE, "INVALID_EMAIL"))
                 ELSE IF body.role \notin { "admin", "manager", "staff", "dispatch_rider" }
                   THEN Finish(c, AdminResponse(400, FALSE, "INVALID_ROLE"))
                 ELSE IF ImmediatePasswordCode(body.immediate_password) # ""
                   THEN Finish(c, AdminResponse(400, FALSE,
                                                ImmediatePasswordCode(body.immediate_password)))
                 ELSE GotoWith(c, "admin_list",
                               [user |-> loc[c].user,
                                sanitizedEmail |-> IF sanitized THEN ToLowerCase(body.email)
                                                                ELSE body.email])
  /\ UNCHANGED <<adminVars, clientVars, customers, otpCodes, deployed, orders, ledger,
                 gateway, statusLog, nextId, clock>>

\* Lines 171-195: auth.admin.listUsers() and the search for the address (an
\* error of the listing leaves nothing to search).
AdminListUsers(c) ==
  /\ pc[c] = "admin_list"
  /\ \E listError \in BOOLEAN :
       LET userExists == { u \in authUsers : ToLowerCase(u.email) = loc[c].sanitizedEmail }
       IN  IF ~listError /\ userExists # {}
             THEN Finish(c, AdminResponse(400, FALSE, "USER_EXISTS"))
             ELSE Goto(c, "admin_existing")
  /\ UNCHANGED <<adminVars, clientVars, customers, otpCodes, deployed, orders, ledger,
                 gateway, statusLog, nextId, clock, inp>>

\* Lines 197-211: .from('profiles').select('id').eq('email', ...).maybeSingle()
AdminExistingProfile(c) ==
  /\ pc[c] = "admin_existing"
  /\ IF HasSingle({ p \in profiles : p.email = loc[c].sanitizedEmail })
       THEN Finish(c, AdminResponse(400, FALSE, "USER_EXISTS"))
       ELSE Goto(c, "admin_create")
  /\ UNCHANGED <<adminVars, clientVars, customers, otpCodes, deployed, orders, ledger,
                 gateway, statusLog, nextId, clock, inp>>

\* Lines 226-273: auth.admin.createUser.  Auth keeps one user per address
\* and answers that the address is already registered otherwise; it can
\* also fail for another reason.
AdminCreateUser(c) ==
  /\ pc[c] = "admin_create"
  /\ LET registered ==
           \E u \in authUsers : ToLowerCase(u.email) = ToLowerCase(loc[c].sanitizedEmail)
     IN  \E createError \in (IF registered THEN { "already" } ELSE { "", "other" }) :
           IF createError # ""
             THEN /\ Finish(c, IF createError = "already"
                                 THEN AdminResponse(400, FALSE, "USER_EXISTS")
                                 ELSE AdminResponse(500, FALSE, ""))
                  /\ UNCHANGED <<authUsers, authAdminLog, nextId>>
             ELSE /\ authUsers' = authUsers \cup
                        { [id |-> nextId, email |-> loc[c].sanitizedEmail] }
                  /\ authAdminLog' = authAdminLog \cup
                        { [op |-> "createUser", call |-> c, by |-> loc[c].user,
                           id |-> nextId, error |-> FALSE] }
                  /\ nextId' = nextId + 1
                  /\ GotoWith(c, "admin_upsert",
                              [user |-> loc[c].user, sanitizedEmail |-> loc[c].sanitizedEmail,
                               newUser |-> nextId])
  /\ UNCHANGED <<profiles, clientVars, customers, otpCodes, deployed, orders, ledger,
                 gateway, statusLog, clock, inp>>

\* Lines 275-374: the upsert of the profile (on its id); with no error, the
\* audit log and the answer.
AdminUpsertProfile(c) ==
  /\ pc[c] = "admin_upsert"
  /\ \E profileError \in { "", "23505", "other" } :
       IF profileError # ""
         THEN /\ GotoWith(c, "admin_cleanup",
                          [newUser |-> loc[c].newUser, profileError |-> profileError])
              /\ UNCHANGED profiles
         ELSE /\ profiles' = { p \in profiles : p.id # loc[c].newUser } \cup
                    { [id |-> loc[c].newUser, email |-> loc[c].sanitizedEmail,
                       role |-> inp[c].body.role, is_active |-> TRUE] }
              /\ Finish(c, AdminResponse(200, TRUE, ""))
  /\ UNCHANGED <<authUsers, authAdminLog, clientVars, customers, otpCodes, deployed, orders,
                 ledger, gateway, statusLog, nextId, clock, inp>>

\* The cleanup left out: the answer without the call of deleteUser.
AdminCleanupSkipped(c) ==
  /\ pc[c] = "admin_cleanup"
  /\ Finish(c, IF loc[c].profileError = "23505"
                 THEN AdminResponse(400, FALSE, "USER_EXISTS")
                 ELSE AdminResponse(500, FALSE, ""))
  /\ UNCHANGED <<adminVars, clientVars, customers, otpCodes, deployed, orders, ledger,
                 gateway, statusLog, nextId, clock, inp>>

\* Lines 292-314: auth.admin.deleteUser(newUser.user.id), whose result is
\* not looked at, and the answer.
AdminCleanup(c) ==
  /\ pc[c] = "admin_cleanup"
  /\ \E deleteError \in BOOLEAN :
       /\ authUsers' = IF deleteError THEN authUsers
                       ELSE { u \in authUsers : u.id # loc[c].newUser }
       /\ authAdminLog' = authAdminLog \cup
             { [op |-> "deleteUser", call |-> c, by |-> NoId, id |-> loc[c].newUser,
                error |-> deleteError] }
  /\ Finish(c, IF loc[c].profileError = "23505"
                 THEN AdminResponse(400, FALSE, "USER_EXISTS")
                 ELSE AdminResponse(500, FALSE, ""))
  /\ UNCHANGED <<profiles, clientVars, customers, otpCodes, deployed, orders, ledger,
                 gateway, statusLog, nextId, clock, inp>>

AdminNext ==
  \/ \E c \in Calls : AdminStart(c)
  \/ \E c \in Calls : AdminGetUser(c)
  \/ \E c \in Calls : AdminProfile(c)
  \/ \E c \in Calls : AdminListUsers(c)
  \/ \E c \in Calls : AdminExistingProfile(c)
  \/ \E c \in Calls : AdminCreateUser(c)
  \/ \E c \in Calls : AdminUpsertProfile(c)
  \/ \E c \in Calls : AdminCleanup(c)

\* ------------------------------------------ useOrderStatusManager (useCart.ts)
Statuses ==
  { "pending", "confirmed", "preparing", "ready", "out_for_delivery", "delivered",
    "cancelled" }

\* The table with a way back from cancelled.
StatusTransitionsWithReopen(status) ==
  CASE status = "pending" -> { "confirmed", "cancelled" }
    [] status = "confirmed" -> { "preparing", "cancelled" }
    [] status = "preparing" -> { "ready", "cancelled" }
    [] status = "ready" -> { "out_for_delivery", "delivered", "cancelled" }
    [] status = "out_for_delivery" -> { "delivered", "cancelled" }
    [] status = "delivered" -> {}
    [] status = "cancelled" -> { "pending" }
    [] OTHER -> {}

\* statusTransitions[status] || []
StatusTransitions(status) ==
  CASE status = "pending" -> { "confirmed", "cancelled" }
    [] status = "confirmed" -> { "preparing", "cancelled" }
    [] status = "preparing" -> { "ready", "cancelled" }
    [] status = "ready" -> { "out_for_delivery", "delivered", "cancelled" }
    [] status = "out_for_delivery" -> { "delivered", "cancelled" }
    [] status = "delivered" -> {}
    [] status = "cancelled" -> {}
    [] OTHER -> {}

GetValidStatuses(status) == StatusTransitions(status)

IsValidTransition(status, newStatus) == newStatus \in GetValidStatuses(status)

\* validateStatusChange: the toast apart, isValidTransition.
ValidateStatusChange(status, newStatus) == IsValidTransition(status, newStatus)

\* The admin asks for a new status of order o; the change is made when
\* validateStatusChange lets it through.
ChangeStatus(o, newStatus) ==
  /\ IF ValidateStatusChange(currentStatus[o], newStatus)
       THEN /\ currentStatus' = [currentStatus EXCEPT ![o] = newStatus]
            /\ transitions' = [transitions EXCEPT ![o] = @ + 1]
       ELSE UNCHANGED <<currentStatus, transitions>>
  /\ UNCHANGED <<adminVars, serverVars, credentials, validation, cart, cartClock>>

\* The admin can ask for the seven statuses of the table and for one it lacks.
StatusNext ==
  \E o \in ManagedOrders, newStatus \in Statuses \cup { "refunded" } : ChangeStatus(o, newStatus)

\* ------------------------------------------------------- useCart (useCart.ts)
\* Largest quantity of a cart line.
MaxQuantity == 5

\* Number of lines ever added to the cart.
MaxLines == 3

\* The products on sale (minimum_order_quantity 0: the field is absent).
Catalogue ==
  { [id |-> "chops", minimum_order_quantity |-> 0],
    [id |-> "platter", minimum_order_quantity |-> 3],
    [id |-> "drink", minimum_order_quantity |-> 1] }

\* Quantities a caller can pass.
Quantities == (0 - 2)..3

\* Ids a caller can pass: `${product.id}_${Date.now()}`
CartItemIds == { <<product.id, now>> : product \in Catalogue, now \in 1..MaxLines }

Max(a, b) == IF a >= b THEN a ELSE b

\* minimum_order_quantity taken as it is.
MinimumOrderQuantityAsGiven(quantity) == quantity

\* minimum_order_quantity || 1
MinimumOrderQuantity(quantity) == IF quantity = 0 THEN 1 ELSE quantity

\* cart.items.findIndex(item => item.product_id === id): 0 when there is none.
FindIndex(items, id) ==
  LET found == { i \in 1..Len(items) : items[i].product_id = id }
  IN  IF found = {} THEN 0 ELSE CHOOSE i \in found : \A j \in found : i <= j

\* cart.items.filter(item => item.id !== cartItemId)
RECURSIVE WithoutItem(_, _)
WithoutItem(items, cartItemId) ==
  IF items = << >> THEN << >>
  ELSE IF Head(items).id = cartItemId THEN WithoutItem(Tail(items), cartItemId)
  ELSE <<Head(items)>> \o WithoutItem(Tail(items), cartItemId)

\* The items of the cart after addItem(product, quantity).
ItemsAfterAdd(items, product, quantity, now) ==
  LET moq == MinimumOrderQuantity(product.minimum_order_quantity)
      existingItemIndex == FindIndex(items, product.id)
  IN  IF existingItemIndex > 0
        THEN LET newQuantity == items[existingItemIndex].quantity + quantity
             IN  [items EXCEPT ![existingItemIndex].quantity =
                                  IF newQuantity < moq THEN moq ELSE newQuantity]
        ELSE Append(items, [id |-> <<product.id, now>>, product_id |-> product.id,
                            quantity |-> Max(quantity, moq),
                            minimum_order_quantity |-> moq])

\* The items of the cart after updateQuantity(cartItemId, quantity).
ItemsAfterUpdate(items, cartItemId, quantity) ==
  IF quantity <= 0 THEN WithoutItem(items, cartItemId)
  ELSE [i \in 1..Len(items) |->
          IF items[i].id = cartItemId
            THEN [items[i] EXCEPT !.quantity =
                    Max(quantity, MinimumOrderQuantity(items[i].minimum_order_quantity))]
            ELSE items[i]]

AddItem(product, quantity) ==
  /\ FindIndex(cart, product.id) = 0 => cartClock <= MaxLines
  /\ \A i \in 1..Len(cart) :
       cart[i].product_id = product.id => cart[i].quantity + quantity <= MaxQuantity
  /\ cart' = ItemsAfterAdd(cart, product, quantity, cartClock)
  /\ cartClock' = IF FindIndex(cart, product.id) = 0 THEN cartClock + 1 ELSE cartClock
  /\ UNCHANGED <<adminVars, serverVars, credentials, validation, currentStatus, transitions>>

RemoveItem(cartItemId) ==
  /\ cart' = WithoutItem(cart, cartItemId)
  /\ UNCHANGED <<adminVars, serverVars, credentials, validation, currentStatus, transitions,
                 cartClock>>

UpdateQuantity(cartItemId, quantity) ==
  /\ cart' = ItemsAfterUpdate(cart, cartItemId, quantity)
  /\ UNCHANGED <<adminVars, serverVars, credentials, validation, currentStatus, transitions,
                 cartClock>>

CartNext ==
  \/ \E product \in Catalogue, quantity \in Quantities : AddItem(product, quantity)
  \/ \E cartItemId \in CartItemIds : RemoveItem(cartItemId)
  \/ \E cartItemId \in CartItemIds, quantity \in Quantities : UpdateQuantity(cartItemId, quantity)

CheckoutNext ==
  \/ \E c \in Calls : CheckoutStart(c)
  \/ \E c \in Calls : CheckoutExisting(c)
  \/ \E c \in Calls : CheckoutPaystack(c)
  \/ \E c \in Calls : CheckoutRespond(c)

\* paystack-secure, first version
PaystackV1Next ==
  \/ \E c \in Calls : InitializeV1Start(c)
  \/ \E c \in Calls : InitializeV1ByNumber(c)
  \/ \E c \in Calls : InitializeV1Order(c)
  \/ \E c \in Calls : InitializeV1Insert(c)
  \/ \E c \in Calls : VerifyV1Start(c)
  \/ \E c \in Calls : VerifyV1Lookup(c)
  \/ \E c \in Calls : VerifyV1Resolve(c)
  \/ \E c \in Calls : VerifyV1ResolveOrder(c)
  \/ \E c \in Calls : VerifyV1ResolveByNumber(c)
  \/ \E c \in Calls : VerifyV1Upsert(c)
  \/ \E c \in Calls : VerifyV1Find(c)
  \/ \E c \in Calls : VerifyV1Update(c)
  \/ \E c \in Calls : VerifyV1Insert(c)
  \/ \E c \in Calls : VerifyV1Rpc(c)
  \/ \E c \in Calls : VerifyV1Reference(c)
  \/ \E c \in Calls : VerifyV1Respond(c)

\* paystack-secure, version v2025-08-17-fixed
PaystackV2Next ==
  \/ \E c \in Calls : InitializeV2Start(c)
  \/ \E c \in Calls : InitializeV2Paystack(c)
  \/ \E c \in Calls : InitializeV2Upsert(c)
  \/ \E c \in Calls : VerifyV2Start(c)
  \/ \E c \in Calls : VerifyV2Transaction(c)
  \/ \E c \in Calls : VerifyV2Order(c)

\* customer registration
RegistrationNext ==
  \/ \E c \in Calls : RegisterStart(c)
  \/ \E c \in Calls : RegisterOtp(c)
  \/ \E c \in Calls : RegisterAccount(c)

Next ==
  \/ AdminNext
  \/ PasswordNext
  \/ StatusNext
  \/ CartNext
  \/ RegistrationNext
  \/ CheckoutNext
  \/ PaystackV1Next
  \/ PaystackV2Next
  \/ GatewayNext

Spec == Init /\ [][Next]_vars

\* The checkout function alone.
SpecCheckout == Init /\ [][CheckoutNext \/ GatewayNext]_vars

\* The deployment of paystack-secure is one or the other of its two versions.
InitV1 == Init /\ deployed = "v1"

InitV2 == Init /\ deployed = "v2"

\* The system with the first version of paystack-secure deployed.
SpecV1 == InitV1 /\ [][CheckoutNext \/ PaystackV1Next \/ GatewayNext]_vars

\* The system with version v2025-08-17-fixed of paystack-secure deployed.
SpecV2 == InitV2 /\ [][CheckoutNext \/ PaystackV2Next \/ GatewayNext]_vars

\* The store with one account whose email has been verified.
VerifiedCustomer == [id |-> 1, email |-> BobEmail, email_verified |-> TRUE]

InitRegistration ==
  /\ deployed = "v1"
  /\ orders = {}
  /\ ledger = {}
  /\ gateway = {}
  /\ statusLog = {}
  /\ nextId = 2
  /\ clock = 1
  /\ pc = [c \in Calls |-> "idle"]
  /\ inp = [c \in Calls |-> [op |-> "none"]]
  /\ loc = [c \in Calls |-> << >>]
  /\ resp = [c \in Calls |-> Pending]
  /\ customers = { VerifiedCustomer }
  /\ otpCodes = {}
  /\ AdminIdle
  /\ ClientIdle

\* Customer registration alone.
SpecRegistration == InitRegistration /\ [][RegistrationNext]_vars

\* The edge functions idle, the first version of paystack-secure deployed.
ServerIdle ==
  /\ deployed = "v1"
  /\ orders = {}
  /\ ledger = {}
  /\ gateway = {}
  /\ statusLog = {}
  /\ clock = 1
  /\ pc = [c \in Calls |-> "idle"]
  /\ inp = [c \in Calls |-> [op |-> "none"]]
  /\ loc = [c \in Calls |-> << >>]
  /\ resp = [c \in Calls |-> Pending]
  /\ customers = {}
  /\ otpCodes = {}

\* The project with its first users.
InitAdmin ==
  /\ ServerIdle
  /\ nextId = 4
  /\ authUsers = SeedUsers
  /\ profiles = SeedProfiles
  /\ authAdminLog = {}
  /\ ClientIdle

\* Admin user creation alone.
SpecAdmin == InitAdmin /\ [][AdminNext]_vars

\* The admin creation form filled in.
InitPasswords ==
  /\ ServerIdle
  /\ nextId = 1
  /\ AdminIdle
  /\ credentials \in CredentialInputs
  /\ validation = [stage |-> "none"]
  /\ currentStatus = [o \in ManagedOrders |-> "pending"]
  /\ transitions = [o \in ManagedOrders |-> 0]
  /\ cart = << >>
  /\ cartClock = 1

\* The validation of an admin password, in the browser and in the function.
SpecPasswords == InitPasswords /\ [][PasswordNext]_vars

\* The order status manager alone.
SpecOrderStatus == InitV1 /\ [][StatusNext]_vars

\* The cart alone.
SpecCart == InitV1 /\ [][CartNext]_vars

\* An order placed before checkout stored payment references: its
\* payment_reference is null.
UnreferencedOrder ==
  [ id |-> 1,
    payment_reference |-> NoRef,
    customer_email |-> "ada@x",
    customer_name |-> "Ada",
    items |-> CartB,
    subtotal |-> ItemsSubtotal(CartB),
    delivery_fee |-> 0,
    total_amount |-> ItemsSubtotal(CartB),
    status |-> "pending",
    payment_status |-> "pending",
    paid_at |-> NoTime,
    idempotency_key |-> <<"checkout", "0">> ]

\* The first version deployed over an orders table that holds such an order.
InitUnreferenced ==
  /\ deployed = "v1"
  /\ orders = { UnreferencedOrder }
  /\ ledger = {}
  /\ gateway = {}
  /\ statusLog = {}
  /\ nextId = 2
  /\ clock = 1
  /\ pc = [c \in Calls |-> "idle"]
  /\ inp = [c \in Calls |-> [op |-> "none"]]
  /\ loc = [c \in Calls |-> << >>]
  /\ resp = [c \in Calls |-> Pending]
  /\ customers = {}
  /\ otpCodes = {}
  /\ AdminIdle
  /\ ClientIdle

\* Payments for orders that have no payment reference yet, first version.
SpecV1Unreferenced == InitUnreferenced /\ [][PaystackV1Next \/ GatewayNext]_vars

\* Requests served one after the other: a request is taken up only when no
\* handler is between its first await and its answer.
InFlight == { c \in Calls : pc[c] \notin { "idle", "done" } }

SequentialCheckoutNext ==
  \/ \E c \in Calls : InFlight = {} /\ CheckoutStart(c)
  \/ \E c \in Calls : CheckoutExisting(c)
  \/ \E c \in Calls : CheckoutPaystack(c)
  \/ \E c \in Calls : CheckoutRespond(c)

SequentialV2Next ==
  \/ \E c \in Calls : InFlight = {} /\ InitializeV2Start(c)
  \/ \E c \in Calls : InitializeV2Paystack(c)
  \/ \E c \in Calls : InitializeV2Upsert(c)
  \/ \E c \in Calls : InFlight = {} /\ VerifyV2Start(c)
  \/ \E c \in Calls : VerifyV2Transaction(c)
  \/ \E c \in Calls : VerifyV2Order(c)

\* process-checkout, one request at a time.
SpecCheckoutSequential == Init /\ [][SequentialCheckoutNext \/ GatewayNext]_vars

\* Version v2025-08-17-fixed deployed, one request at a time.
SpecV2Sequential ==
  InitV2 /\ [][SequentialCheckoutNext \/ SequentialV2Next \/ GatewayNext]_vars


\* ------------------------------------------------------------------ claims
\* Call c is a checkout that was answered with success.
CheckoutSucceeded(c) == inp[c].op = "checkout" /\ resp[c].status = 200

\* Calls c and d are two successful checkouts that sent the same idempotency key.
SameKeyCheckouts(c, d) ==
  /\ c # d
  /\ CheckoutSucceeded(c)
  /\ CheckoutSucceeded(d)
  /\ inp[c].body.idempotency_key # NoRef
  /\ inp[c].body.idempotency_key = inp[d].body.idempotency_key

\* sum(item price * quantity) + delivery fee of an order row
ItemsPlusFee(o) == ItemsSubtotal(o.items) + o.delivery_fee

\* C1: two checkout requests with the same idempotency key leave exactly one
\* order row for the key, and both responses name the same order id.
C1_IdempotentOrderCreation ==
  \A c, d \in Calls :
    SameKeyCheckouts(c, d) =>
      /\ Cardinality({ o \in orders : o.idempotency_key = inp[c].body.idempotency_key }) = 1
      /\ resp[c].order_id = resp[d].order_id

\* C2: when verify has already answered success for a reference, a second
\* verify of that reference, run after the first, writes nothing more to the
\* status, payment status or paid timestamp of the order.
C2_SecondVerifyWritesNothing ==
  [][ \A c, d \in Calls :
        ( /\ c # d
          /\ pc[d] = "done"
          /\ inp[d].op = "verify"
          /\ resp[d].data_status = "success"
          /\ pc[c] \in { "verify2_order", "verify1_rpc" }
          /\ pc'[c] # pc[c]
          /\ resp[d].reference = (IF pc[c] = "verify2_order" THEN loc[c].reference
                                  ELSE loc[c].effectiveRef) )
        => \A o \in orders :
             o.payment_reference = resp[d].reference
               => \E n \in orders' : /\ n.id = o.id
                                     /\ n.status = o.status
                                     /\ n.payment_status = o.payment_status
                                     /\ n.paid_at = o.paid_at ]_vars

\* C3: a verify that read a gateway status other than success issues no
\* statement that sets an order paid or confirmed: neither the
\* handle_successful_payment RPC nor the update of orders.
C3_NoFinalizeUnlessSuccess == \A w \in statusLog : w.gateway_status = "success"

\* C4: the total_amount stored for the order of a successful checkout is the
\* sum of its items plus its delivery fee, whatever total the client sent.
C4_PersistedTotalIsAuthoritative ==
  \A c \in Calls :
    CheckoutSucceeded(c) =>
      \A o \in orders : o.id = resp[c].order_id => o.total_amount = ItemsPlusFee(o)

\* C5: the amount of a transaction initialized at the gateway is 100 times the
\* sum of the items plus the delivery fee of the order it pays.
C5_GatewayAmountIsAuthoritative ==
  \A t \in gateway :
    \A o \in orders : o.id = t.order_id => t.amount = 100 * ItemsPlusFee(o)

\* C6: two checkouts for the same order (the same idempotency key), one after
\* the other, answer with the same payment reference, and the order keeps the
\* reference it was given first.
C6_SameReferenceOnRepeat ==
  \A c, d \in Calls :
    SameKeyCheckouts(c, d) =>
      /\ resp[c].reference = resp[d].reference
      /\ \A o \in orders : o.idempotency_key = inp[c].body.idempotency_key
                             => o.payment_reference = resp[c].reference

\* C7: an initialize that answered success with an authorization URL has
\* written the transaction row of the reference it returned.
C7_SuccessOnlyWithPendingRow ==
  \A c \in Calls :
    (inp[c].op = "initialize" /\ resp[c].status = 200 /\ resp[c].authorization_url # NoRef)
      => \E t \in ledger : t.provider_reference = resp[c].reference

C9_ExistingOrderUntouched ==
  [][ \A c \in Calls :
        (pc[c] = "idle" /\ inp'[c].op = "checkout")
          => \A o \in orders :
               o.idempotency_key = inp'[c].body.idempotency_key
                 => \E n \in orders' : /\ n.idempotency_key = o.idempotency_key
                                       /\ n.customer_email = o.customer_email
                                       /\ n.customer_name = o.customer_name
                                       /\ n.items = o.items
                                       /\ n.subtotal = o.subtotal
                                       /\ n.delivery_fee = o.delivery_fee
                                       /\ n.total_amount = o.total_amount ]_vars

\* C10: of the verify calls for one reference, concurrent or not, at most one
\* statement changes the order to paid or confirmed.
C10_TransitionAppliedOnce ==
  \A w, x \in statusLog :
    (w.applied /\ x.applied /\ w.reference = x.reference) => w.call = x.call


\* C11: two initialize calls in flight for the same order, whose
\* payment_reference is still unset, hold the same reference to persist on
\* the order and to return.
C11_RacingInitializationsConverge ==
  \A c, d \in Calls :
    ( /\ c # d
      /\ pc[c] = "initialize1_order"
      /\ pc[d] = "initialize1_order"
      /\ loc[c].orderId = loc[d].orderId
      /\ \E o \in orders : o.id = loc[c].orderId /\ o.payment_reference = NoRef )
    => loc[c].returnedRef = loc[d].returnedRef

\* C12: an order never has two pending payment transactions: a further
\* initialize for an order that has one creates no second row.
C12_NoSecondPendingTransaction ==
  \A o \in orders :
    Cardinality({ t \in ledger : t.order_id = o.id /\ t.status = "pending" }) <= 1

\* C13: when a verify that read gateway status success answers, every order it
\* resolved (the order of its reference) has payment_status paid and status
\* confirmed.
C13_SuccessLeavesOrderPaid ==
  [][ \A c \in Calls :
        ( /\ pc[c] \in { "verify2_order", "verify1_respond" }
          /\ pc'[c] = "done"
          /\ loc[c].tx.status = "success" )
        => \A o \in orders' :
             o.payment_reference = (IF pc[c] = "verify2_order" THEN loc[c].reference
                                    ELSE loc[c].effectiveRef)
               => o.payment_status = "paid" /\ o.status = "confirmed" ]_vars

\* C14: a verify for a non-empty reference that ends without a gateway match
\* answers with HTTP 200; the only HTTP error is a network error thrown by
\* the last attempt of the lookup.
C14_NoMatchIsNotAnHttpError ==
  [][ \A c \in Calls :
        ( /\ pc[c] # "done"
          /\ pc'[c] = "done"
          /\ inp'[c].op = "verify"
          /\ inp'[c].body.reference # NoRef
          /\ pc[c] # "verify1_lookup" )
        => resp'[c].status = 200 ]_vars


\* C15: for a provisional pay_ reference R the gateway does not know, stored as
\* client_reference on a ledger row whose provider_reference S the gateway
\* knows, the resolution of R is S, by the client-metadata mapping, and the
\* transaction verify reports is the gateway's transaction of S.
C15_ClientMetadataResolves ==
  \A t \in ledger :
    ( /\ t.client_reference # NoRef
      /\ Head(t.client_reference) = "pay"
      /\ ~GatewayKnows(t.client_reference)
      /\ GatewayKnows(t.provider_reference) )
    => LET st == ResolveReference(t.client_reference, NoId)
       IN  /\ st.ok
           /\ st.mappingStrategy = "client_metadata"
           /\ st.effectiveRef = t.provider_reference
           /\ Verified(t.client_reference, st).tx = GatewayTx(t.provider_reference)

\* C16: when a verify that read gateway status success and resolved no order
\* answers, it answers 200 and the ledger holds a row for the effective
\* reference with status paid.
C16_EvidenceKeptWithoutOrder ==
  [][ \A c \in Calls :
        ( /\ pc[c] = "verify1_respond"
          /\ pc'[c] = "done"
          /\ loc[c].tx.status = "success"
          /\ loc[c].orderId = NoId )
        => /\ resp'[c].status = 200
           /\ \E t \in ledger' : /\ t.provider_reference = loc[c].effectiveRef
                                  /\ t.status = "paid" ]_vars


\* C17: an initialization whose gateway initialize call is rejected for a
\* duplicate reference does not end there: it mints a new reference and
\* retries before it answers.
C17_DuplicateReferenceRetried ==
  [][ \A c \in Calls :
        ( /\ pc[c] = "initialize2_paystack"
          /\ GatewayKnows(loc[c].transactionRef)
          /\ pc'[c] # pc[c] )
        => pc'[c] # "done" ]_vars

\* C18: the gateway lookup of verify makes at most MaxRetries attempts, waits
\* 2^i seconds after the i-th failed attempt, and leaves the loop at the
\* latest on the step taken at attempt MaxRetries.
C18_LookupRetriesBounded ==
  [][ \A c \in Calls :
        pc[c] = "verify1_lookup"
        => /\ loc[c].attempt \in 1..MaxRetries
           /\ loc[c].delays = [i \in 1..(loc[c].attempt - 1) |-> 2 ^ i]
           /\ pc'[c] = "verify1_lookup" /\ loc'[c] # loc[c]
                => /\ loc[c].attempt < MaxRetries
                   /\ loc'[c].attempt = loc[c].attempt + 1
           /\ pc'[c] = "done"
                => /\ loc[c].attempt = MaxRetries
                   /\ resp'[c].status = 500 ]_vars

C18_Witness ==
  \E c \in Calls :
    /\ pc[c] = "verify1_lookup"
    /\ loc[c].attempt = MaxRetries
    /\ loc[c].delays = <<2, 4>>


\* C19: a step of verify's gateway lookup or of its reference mapping, a
\* failed network call included, leaves the orders and the ledger as they
\* were; in particular the step that ends the call with the thrown network
\* error marks nothing failed.
C19_NetworkFailureWritesNothing ==
  [][ \A c \in Calls :
        ( /\ pc[c] \in { "verify1_lookup", "verify1_resolve" }
          /\ (pc'[c] # pc[c] \/ loc'[c] # loc[c]) )
        => /\ orders' = orders
           /\ ledger' = ledger ]_vars

C19_Witness ==
  \E c \in Calls :
    /\ inp[c].op = "verify"
    /\ ValidateReference(inp[c].body.reference)
    /\ pc[c] = "done"
    /\ resp[c].status = 500
    /\ \E t \in ledger : /\ t.provider_reference = inp[c].body.reference
                          /\ t.status = "pending"
    /\ \E o \in orders : o.payment_status = "pending"

\* C20: a ledger row that is paid or failed keeps that status whatever a
\* later verify reads from the gateway.  Only verifies whose gateway read is
\* still current are considered, so a write made from a read older than the
\* settled status is not what refutes it.
CurrentReads ==
  \A c \in Calls :
    "tx" \in DOMAIN loc[c] => loc[c].tx = GatewayTx(loc[c].effectiveRef)

C20_SettledRowKeepsStatus ==
  [][ CurrentReads
      => \A t \in ledger :
           t.status \in { "paid", "failed" }
           => \A u \in ledger' :
                u.provider_reference = t.provider_reference => u.status = t.status ]_vars


C22_ValidationFailureIs400 ==
  \A c \in Calls :
    ( /\ inp[c].op = "checkout"
      /\ pc[c] = "done"
      /\ (inp[c].body.items = << >> \/ inp[c].body.email = "") )
    => resp[c].status \in 400..499


\* C23: no two rows of customer_accounts hold the same email, compared
\* without regard to case.
C23_OneAccountPerEmail ==
  \A a, b \in customers : ToLowerCase(a.email) = ToLowerCase(b.email) => a = b


\* C24: a verify whose direct lookup found nothing, whose reference no ledger
\* row carries as client_reference, and whose hint names an order with a
\* stored reference the gateway knows, resolves through the hint order.
C24_HintStrategyAttempted ==
  \A c \in Calls :
    ( /\ pc[c] = "verify1_resolve"
      /\ loc[c].hint # NoId
      /\ ~\E t \in ledger : t.client_reference = loc[c].reference
      /\ \E o \in orders : /\ o.id = loc[c].hint
                            /\ o.payment_reference # NoRef
                            /\ GatewayKnows(o.payment_reference) )
    => LET st == ResolveReference(loc[c].reference, loc[c].hint)
       IN  /\ st.ok
           /\ st.mappingStrategy \in { "by_order_id", "orders_payment_reference" }


\* C25: the gateway lookup of verify is not repeated with the same reference
\* after the gateway answered that the reference does not exist.
C25_NotFoundIsNotRetried ==
  [][ \A c \in Calls :
        ( /\ pc[c] = "verify1_lookup"
          /\ pc'[c] = "verify1_lookup"
          /\ loc'[c].attempt = loc[c].attempt + 1 )
        => /\ loc'[c].reference = loc[c].reference
           /\ loc'[c].lastError # "not_found" ]_vars


\* C26: an initialization that names an existing order charges that order's
\* persisted total_amount: the amount sent to the gateway is the total in
\* kobo, the fee it already contains not added again.
C26_FeeNotAddedTwice ==
  [][ \A c \in Calls :
        ( /\ pc[c] = "idle"
          /\ pc'[c] = "initialize2_paystack"
          /\ loc'[c].orderId \in OrderIds )
        => loc'[c].amountInKobo = ToKobo(OrderById(loc'[c].orderId).total_amount) ]_vars


\* C27: the steps of verify that write to the orders table leave every
\* order's payment_reference, subtotal, delivery_fee and total_amount as
\* they were.
C27_VerifyKeepsReferenceAndAmounts ==
  [][ \A c \in Calls :
        ( /\ pc[c] \in { "verify1_rpc", "verify1_reference" }
          /\ pc'[c] # pc[c] )
        => \A o \in orders :
             \E p \in orders' : /\ p.id = o.id
                                /\ p.payment_reference = o.payment_reference
                                /\ p.subtotal = o.subtotal
                                /\ p.delivery_fee = o.delivery_fee
                                /\ p.total_amount = o.total_amount ]_vars


\* C28: every row of the ledger has status pending, paid or failed.
C28_LedgerStatusDomain ==
  \A t \in ledger : t.status \in { "pending", "paid", "failed" }


C31_FailedCheckoutLeavesNoOrder ==
  [][ \A c \in Calls :
        ( /\ pc[c] = "checkout_paystack"
          /\ pc'[c] = "done"
          /\ ~resp'[c].success )
        => ~\E o \in orders' : o.id = loc[c].orderResultId ]_vars

\* C33: a checkout with no items or no customer email is refused in its
\* first step, which leaves the orders table and the gateway as they were.
C33_InvalidCheckoutWritesNothing ==
  [][ \A c \in Calls :
        ( /\ pc[c] = "idle"
          /\ pc'[c] # "idle"
          /\ inp'[c].op = "checkout"
          /\ (inp'[c].body.items = << >> \/ inp'[c].body.email = "") )
        => /\ pc'[c] = "done"
           /\ ~resp'[c].success
           /\ orders' = orders
           /\ gateway' = gateway ]_vars

\* C33, reached: a checkout without items or without email has been refused
\* while the orders table held an order and the gateway a transaction.
C33_Witness ==
  /\ orders # {}
  /\ gateway # {}
  /\ \E c \in Calls :
       /\ inp[c].op = "checkout"
       /\ (inp[c].body.items = << >> \/ inp[c].body.email = "")
       /\ pc[c] = "done"
       /\ ~resp[c].success


\* C32: the body of every success response of a checkout is valid for
\* validatePaymentInitializationData.
C32_SuccessResponseIsValid ==
  \A c \in Calls :
    (inp[c].op = "checkout" /\ pc[c] = "done" /\ resp[c].success)
    => ValidatePaymentInitializationData(CheckoutSuccessBody(resp[c])).isValid

\* The user with this id has an active administrator's profile.
ActiveAdmin(id) == \E p \in profiles : p.id = id /\ p.role = "admin" /\ p.is_active

\* Call c is an answered POST to admin-user-creator.
AdminRequestDone(c) == inp[c].op = "admin" /\ inp[c].method = "POST" /\ pc[c] = "done"

\* The bearer token of call c resolves to a user with an active
\* administrator's profile.
AdminCaller(c) ==
  /\ inp[c].authorization # NoRef
  /\ \E u \in authUsers : u.id = inp[c].authorization[2]
  /\ ActiveAdmin(inp[c].authorization[2])

\* Users and profiles are created only on behalf of active administrators,
\* and a request of anyone else creates none and is answered with one of
\* these statuses.
OnlyAdminsCreate(statuses) ==
  /\ \A e \in authAdminLog : e.op = "createUser" => ActiveAdmin(e.by)
  /\ \A p \in profiles \ SeedProfiles :
       \E e \in authAdminLog : e.op = "createUser" /\ e.id = p.id /\ ActiveAdmin(e.by)
  /\ \A c \in Calls :
       (AdminRequestDone(c) /\ ~AdminCaller(c))
       => /\ resp[c].status \in statuses
          /\ \A e \in authAdminLog : e.call # c

\* C34, as stated: admin-user-creator creates a user or a profile only for
\* a caller with an active administrator's profile, and every other request
\* ends with 401 or 403 and creates nothing.
C34_OthersEnd401Or403 == OnlyAdminsCreate({ 401, 403 })

\* C34, amended: admin-user-creator creates a user or a profile only for a
\* caller with an active administrator's profile, and every other request
\* ends with 401, 403 or, when the rate limit is exceeded, 429, and creates
\* nothing.
C34_OthersEnd401Or403Or429 == OnlyAdminsCreate({ 401, 403, 429 })

\* An administrator created a user, a request of someone else was refused
\* with 403 and another was turned away by the rate limit.
C34_Witness ==
  /\ \E e \in authAdminLog : e.op = "createUser"
  /\ \E c \in Calls : AdminRequestDone(c) /\ ~AdminCaller(c) /\ resp[c].status = 403
  /\ \E c \in Calls : AdminRequestDone(c) /\ ~AdminCaller(c) /\ resp[c].status = 429

LocalParts(email) ==
  LET local == ToLowerCase(BeforeAt(email))
  IN  { SubSeq(local, i, j) : i \in 1..Len(local), j \in 1..Len(local) } \ { << >> }

EmailParts(email) ==
  LET local == ToLowerCase(BeforeAt(email))
  IN  { part \in LocalParts(email) :
          /\ "." \notin Chars(part)
          /\ \E i \in 1..(Len(local) - Len(part) + 1) :
               /\ SubSeq(local, i, i + Len(part) - 1) = part
               /\ (i = 1 \/ local[i - 1] = ".")
               /\ (i + Len(part) - 1 = Len(local) \/ local[i + Len(part)] = ".") }

\* C36: validateAdminPassword is invalid and reports that the password
\* cannot contain parts of the email address for every password that
\* contains a part (of more than 3 characters, the length the function asks
\* of the local part) of the local part of the email.
C36_EmailPartsRejected ==
  (/\ validation.stage # "none"
   /\ \E part \in EmailParts(credentials.email) :
        Len(part) > 3 /\ Includes(ToLowerCase(credentials.password), part))
  => (~validation.client.valid /\ EmailPartsError \in validation.client.errors)

\* C37: every password validateAdminPassword accepts passes the checks of
\* admin-user-creator, so the function never answers WEAK_PASSWORD to a
\* request that passed the validation of the client.
C37_ClientAcceptedIsServerAccepted ==
  /\ (validation.stage # "none" /\ validation.client.valid)
     => ImmediatePasswordCode(credentials.password) = ""
  /\ validation.stage = "server" => validation.code # "WEAK_PASSWORD"

\* A password the client accepted was sent to the function.
C37_Witness ==
  validation.stage = "server" /\ validation.client.valid /\ validation.code = ""

\* The place of a status in the order status flow of the README.
StatusRank(status) ==
  CASE status = "pending" -> 1
    [] status = "confirmed" -> 2
    [] status = "preparing" -> 3
    [] status = "ready" -> 4
    [] status = "out_for_delivery" -> 5
    [] status = "delivered" -> 6
    [] status = "cancelled" -> 7
    [] OTHER -> 0

FinalStatuses == { "delivered", "cancelled" }

\* C38: a transition is valid only to a status of the table that comes
\* later in the flow; delivered and cancelled have no successor and every
\* other status has one; no order returns to an earlier status; and an
\* order that started pending is delivered or cancelled after 5 changes at
\* most.
C38_TransitionsOnlyForward ==
  /\ [](/\ \A status \in Statuses, newStatus \in Statuses \cup { "refunded" } :
            IsValidTransition(status, newStatus)
            => /\ newStatus \in Statuses
               /\ StatusRank(newStatus) > StatusRank(status)
               /\ status \notin FinalStatuses
        /\ \A o \in ManagedOrders :
            /\ transitions[o] <= 5
            /\ transitions[o] = 5 => currentStatus[o] \in FinalStatuses
            /\ GetValidStatuses(currentStatus[o]) = {} <=> currentStatus[o] \in FinalStatuses)
  /\ [][\A o \in ManagedOrders :
          currentStatus'[o] # currentStatus[o]
          => /\ currentStatus'[o] \in GetValidStatuses(currentStatus[o])
             /\ StatusRank(currentStatus'[o]) > StatusRank(currentStatus[o])]_vars

\* An order went through the longest chain: five changes, to delivered.
C38_Witness ==
  \E o \in ManagedOrders : currentStatus[o] = "delivered" /\ transitions[o] = 5

\* C39: every line of the cart has a quantity of at least 1 and at least
\* its minimum_order_quantity, and updateQuantity with a quantity of 0 or
\* less removes the line.
C39_QuantitiesRespectMinimum ==
  /\ [](\A i \in 1..Len(cart) :
          cart[i].quantity >= Max(1, cart[i].minimum_order_quantity))
  /\ [][\A cartItemId \in CartItemIds, quantity \in Quantities :
          (quantity <= 0 /\ UpdateQuantity(cartItemId, quantity))
          => \A i \in 1..Len(cart') : cart'[i].id # cartItemId]_vars

\* A line was taken out of the cart, and a line with a minimum order
\* quantity of 3 holds exactly 3.
C39_Witness ==
  /\ cartClock > Len(cart) + 1
  /\ \E i \in 1..Len(cart) : cart[i].minimum_order_quantity = 3 /\ cart[i].quantity = 3

====
